---- MODULE Spec2Model ----
(***************************************************************************)
(* checkmate: the todo.txt task store (FileTaskRepository), the service    *)
(* on top of it (TodoService) and the task record (Task).                  *)
(*                                                                         *)
(* Text is modelled at the granularity of whitespace-separated tokens: a   *)
(* line of a file, a description and a task's last-known stored text are   *)
(* sequences of tokens.  A token is a triple <<kind, key, value>>:         *)
(*   "w"    a plain word                 "kv"   key:value                   *)
(*   "x"    the completion marker x      "pri"  (P)                         *)
(*   "date" YYYY-MM-DD                   "ctx"  @value    "prj"  +value     *)
(* Runs of blanks and substrings inside a token are not represented.       *)
(***************************************************************************)
EXTENDS Integers, Sequences, FiniteSets, TLC

\* ---- bounds of the model ------------------------------------------------
MaxIds == 1          \* identifiers uuid4 hands out in one run
MaxLines == 2        \* lines held by the two files together
MaxTokens == 7       \* tokens of one stored line
MaxRows == 3         \* tasks of the active file when the list widget loads it

\* ---- values --------------------------------------------------------------
None == "None"                      \* Python's None for string valued fields
NoText == << >>                     \* None / "" for a text
Today == "today"                    \* date.today(), fixed during a run
DueDay == "2025-12-31"              \* a due date the caller passes
EarlyDay == "2025-01-01"            \* an earlier date

W(a) == <<"w", "", a>>
KV(k, v) == <<"kv", k, v>>
XTok == <<"x", "", "x">>
PriTok(p) == <<"pri", "", p>>
DateTok(d) == <<"date", "", d>>
CtxTok(c) == <<"ctx", "", c>>
PrjTok(p) == <<"prj", "", p>>

\* uuid.uuid4().hex[:8]: the n-th identifier generated in a run
Uuid(n) == IF n = 1 THEN "u1" ELSE IF n = 2 THEN "u2" ELSE IF n = 3 THEN "u3" ELSE "u4"

\* ---- generic helpers -----------------------------------------------------
MapVal(s) == [i \in 1..Len(s) |-> s[i][3]]

\* ---- pytodotxt.Task as the repository uses it ---------------------------
\* a leading token of the given kind that is followed by more text
HasLead(line, kind) == Len(line) > 1 /\ line[1][1] = kind
Lead(line, kind) == IF HasLead(line, kind) THEN line[1][3] ELSE None
Rest(line, kind) == IF HasLead(line, kind) THEN Tail(line) ELSE line

\* Task(line).parse: optional "x ", optional "(P) ", up to two dates, rest
PyParseDates(is_completed, priority, first_date, line) ==
    [is_completed |-> is_completed,
     priority |-> priority,
     completion_date |->
        IF first_date # None /\ HasLead(line, "date") THEN first_date ELSE None,
     creation_date |->
        IF first_date # None /\ HasLead(line, "date") THEN Lead(line, "date") ELSE first_date,
     description |-> IF first_date # None THEN Rest(line, "date") ELSE line]

PyParsePriority(is_completed, priority, line) ==
    PyParseDates(is_completed, priority, Lead(line, "date"), Rest(line, "date"))

\* the letters A..Z, as far as the calls use them
AsciiUpper == {"A", "B"}

\* "(P) " is a priority only for P in A..Z; anything else is description
PyParseCompleted(is_completed, line) ==
    IF HasLead(line, "pri") /\ line[1][3] \in AsciiUpper
    THEN PyParsePriority(is_completed, Lead(line, "pri"), Rest(line, "pri"))
    ELSE PyParsePriority(is_completed, None, line)

PyParse(line) == PyParseCompleted(HasLead(line, "x"), Rest(line, "x"))

\* Task() without a line, or with a blank one
PyBlank ==
    [is_completed |-> FALSE, priority |-> None, completion_date |-> None,
     creation_date |-> None, description |-> NoText]

PyTask(line) == IF line = NoText THEN PyBlank ELSE PyParse(line)

\* str(task)
PyStr(pt) ==
    (IF pt.is_completed THEN <<XTok>> ELSE << >>)
    \o (IF pt.priority # None /\ pt.priority # "" THEN <<PriTok(pt.priority)>> ELSE << >>)
    \o (IF pt.completion_date # None THEN <<DateTok(pt.completion_date)>> ELSE << >>)
    \o (IF pt.creation_date # None THEN <<DateTok(pt.creation_date)>> ELSE << >>)
    \o pt.description

\* task.attributes: key -> list of values, keys and values in text order.
\* An attribute mapping is a sequence of entries [key, vals, list] in
\* insertion order; list = FALSE is a scalar value (vals has one element).
AttrHas(attrs, k) == \E i \in 1..Len(attrs) : attrs[i].key = k
AttrIdx(attrs, k) == CHOOSE i \in 1..Len(attrs) : attrs[i].key = k

\* the positions of kvs where a key occurs for the first time
FirstOccurrences(kvs) ==
    SelectSeq([i \in 1..Len(kvs) |-> i],
              LAMBDA i : \A j \in 1..(i - 1) : kvs[j][2] # kvs[i][2])

AttrEntries(kvs, firsts) ==
    [n \in 1..Len(firsts) |->
        [key |-> kvs[firsts[n]][2],
         vals |-> MapVal(SelectSeq(kvs, LAMBDA t : t[2] = kvs[firsts[n]][2])),
         list |-> TRUE]]

AttrOfTokens(kvs) == AttrEntries(kvs, FirstOccurrences(kvs))

PyAttributes(pt) == AttrOfTokens(SelectSeq(pt.description, LAMBDA t : t[1] = "kv"))
PyProjects(pt) == MapVal(SelectSeq(pt.description, LAMBDA t : t[1] = "prj"))
PyContexts(pt) == MapVal(SelectSeq(pt.description, LAMBDA t : t[1] = "ctx"))

\* TodoTxt(path).parse(): one task per non-blank line
ParseLines(lines) == [i \in 1..Len(lines) |-> PyParse(lines[i])]
TodoTxtParse(file) == ParseLines(SelectSeq(file, LAMBDA l : l # NoText))

\* TodoTxt.save(): str(task) for every task
TodoTxtSave(pts) == [i \in 1..Len(pts) |-> PyStr(pts[i])]

\* ---- models.Task ---------------------------------------------------------
\* re.findall(r"\+(\S+)", description) / re.findall(r"@(\S+)", description)
Projects(description) == MapVal(SelectSeq(description, LAMBDA t : t[1] = "prj"))
Contexts(description) == MapVal(SelectSeq(description, LAMBDA t : t[1] = "ctx"))

refresh_metadata(task) ==
    [task EXCEPT !.projects = Projects(task.description),
                 !.contexts = Contexts(task.description)]

\* the dataclass constructor with __post_init__; meta = TRUE is _TaskWithMeta,
\* whose original_text starts as None
Task(description, is_completed, priority, creation_date, completion_date, projects, contexts, attributes, meta) ==
    [description |-> description, is_completed |-> is_completed,
     priority |-> priority, creation_date |-> creation_date,
     completion_date |-> completion_date,
     projects |-> IF projects = << >> /\ contexts = << >>
                  THEN Projects(description) ELSE projects,
     contexts |-> IF projects = << >> /\ contexts = << >>
                  THEN Contexts(description) ELSE contexts,
     attributes |-> attributes, meta |-> meta, original_text |-> NoText]

\* the value of an attribute entry as Task.id reads it: the first of a list
FirstValue(e) == IF e.vals = << >> THEN None ELSE e.vals[1]

\* Task.id: attributes.get("cmid")
id(task) ==
    IF AttrHas(task.attributes, "cmid")
    THEN FirstValue(task.attributes[AttrIdx(task.attributes, "cmid")])
    ELSE None

\* attributes[k] = v for a scalar v: a dict keeps the position of a key
AttrSet(attrs, k, v) ==
    IF AttrHas(attrs, k)
    THEN [attrs EXCEPT ![AttrIdx(attrs, k)] = [key |-> k, vals |-> <<v>>, list |-> FALSE]]
    ELSE attrs \o <<[key |-> k, vals |-> <<v>>, list |-> FALSE]>>

\* Task.due_date getter: the first value of attributes["due"] when it parses as
\* YYYY-MM-DD, none otherwise
IsDateText(v) == v \in {Today, DueDay, EarlyDay}
DueValue(e) == IF e.vals = << >> \/ e.vals[1] = "" THEN None
               ELSE IF IsDateText(e.vals[1]) THEN e.vals[1] ELSE None
get_due_date(task) ==
    IF AttrHas(task.attributes, "due")
    THEN DueValue(task.attributes[AttrIdx(task.attributes, "due")])
    ELSE None

\* Task.due_date setter
set_due_date(task, value) ==
    IF value = None
    THEN [task EXCEPT !.attributes = SelectSeq(@, LAMBDA e : e.key # "due")]
    ELSE [task EXCEPT !.attributes = AttrSet(@, "due", value)]

\* a complete() that sets the flag and keeps the date it finds
complete_flag_only(task) == [task EXCEPT !.is_completed = TRUE]

complete(task) == [task EXCEPT !.is_completed = TRUE, !.completion_date = Today]
reopen(task) == [task EXCEPT !.is_completed = FALSE, !.completion_date = None]

\* ---- repository.FileTaskRepository --------------------------------------
\* description.replace(f"{key}:{val}", "") for every attribute, then the
\* blanks are squeezed
StripAttributes(description, attrs) ==
    SelectSeq(description,
              LAMBDA t : ~(t[1] = "kv" /\ \E i \in 1..Len(attrs) :
                              /\ attrs[i].key = t[2]
                              /\ \E j \in 1..Len(attrs[i].vals) : attrs[i].vals[j] = t[3]))

\* task._original_text = str(pytodo_task)
WithOriginalText(task, text) == [task EXCEPT !.original_text = text]

DomainTask(pt, attrs) ==
    Task(StripAttributes(pt.description, attrs), pt.is_completed, pt.priority,
         pt.creation_date, pt.completion_date, PyProjects(pt), PyContexts(pt), attrs, TRUE)

to_domain(pt) == WithOriginalText(DomainTask(pt, PyAttributes(pt)), PyStr(pt))

\* task.add_attribute(k, item) for every value: each is appended to the
\* pytodotxt description as a key:value token
AttributeTokens(entries) ==
    LET added[n \in 0..Len(entries)] ==
            IF n = 0 THEN << >>
            ELSE added[n - 1]
                 \o [j \in 1..Len(entries[n].vals) |-> KV(entries[n].key, entries[n].vals[j])]
    IN  added[Len(entries)]

AddAttributes(pt, entries) == [pt EXCEPT !.description = @ \o AttributeTokens(entries)]

\* the fields _to_pytodo assigns after parsing the description
WithFields(t, task) ==
    [t EXCEPT !.is_completed = task.is_completed,
              !.priority = task.priority,
              !.creation_date = task.creation_date,
              !.completion_date = task.completion_date]

\* an encoder that forgets the attributes
to_pytodo_without_attributes(task) == WithFields(PyTask(task.description), task)

to_pytodo(task) ==
    AddAttributes(WithFields(PyTask(task.description), task), task.attributes)

DomainTasks(pts) == [i \in 1..Len(pts) |-> to_domain(pts[i])]
get_tasks(file) == DomainTasks(TodoTxtParse(file))

\* the id _remove_by_id reads off a stored task: the first cmid value
FirstCmid(attrs) ==
    IF AttrHas(attrs, "cmid") THEN attrs[AttrIdx(attrs, "cmid")].vals[1] ELSE None
StoredId(pt) == FirstCmid(PyAttributes(pt))

\* the end of _remove_by_id and _remove_from_file: the file is rewritten
\* only when a task was found
Rewritten(file, pts, keep) ==
    IF Len(keep) < Len(pts)
    THEN [found |-> TRUE, file |-> TodoTxtSave(keep)]
    ELSE [found |-> FALSE, file |-> file]

RemoveId(file, pts, task_id) ==
    Rewritten(file, pts, SelectSeq(pts, LAMBDA t : StoredId(t) # task_id))
remove_by_id(file, task_id) == RemoveId(file, TodoTxtParse(file), task_id)

RemoveText(file, pts, task_str) ==
    Rewritten(file, pts, SelectSeq(pts, LAMBDA t : PyStr(t) # task_str))
remove_from_file(file, task_str) == RemoveText(file, TodoTxtParse(file), task_str)

\* todotxt.parse(); todotxt.tasks.append(pytodo_task); todotxt.save()
append_task(file, pt) == TodoTxtSave(TodoTxtParse(file) \o <<pt>>)

\* a save that draws a fresh identifier on every call
EnsureIdAlways(task, n) ==
    [task EXCEPT !.attributes = AttrSet(@, "cmid", Uuid(n))]

\* "cmid" not in task.attributes => attributes["cmid"] = uuid4().hex[:8]
EnsureId(task, n) ==
    IF AttrHas(task.attributes, "cmid") THEN task
    ELSE [task EXCEPT !.attributes = AttrSet(@, "cmid", Uuid(n))]

\* removal by id: the active file first, the completed file only when the
\* active file held no task with the id
AfterTodo(r1, done, task_id) ==
    IF r1.found THEN [found |-> TRUE, todo |-> r1.file, done |-> done]
    ELSE [found |-> remove_by_id(done, task_id).found, todo |-> r1.file,
          done |-> remove_by_id(done, task_id).file]

RemoveByIdFirst(task_id, todo, done) ==
    IF task_id # None /\ task_id # ""
    THEN AfterTodo(remove_by_id(todo, task_id), done, task_id)
    ELSE [found |-> FALSE, todo |-> todo, done |-> done]

\* a save and a delete without the fallback
RemoveByTextNever(r, original_text) == [todo |-> r.todo, done |-> r.done]

\* the fallback: removal by the last-known text, from both files
RemoveByText(r, original_text) ==
    IF ~r.found /\ original_text # NoText
    THEN [todo |-> remove_from_file(r.todo, original_text).file,
          done |-> remove_from_file(r.done, original_text).file]
    ELSE [todo |-> r.todo, done |-> r.done]

RemoveStale(task, todo, done) ==
    RemoveByText(RemoveByIdFirst(id(task), todo, done), task.original_text)

\* the file the fresh line goes to
TargetIsDone(task) == task.is_completed

\* the append and the update of the last-known text
SaveAppend(task, pytodo_task, files, generated) ==
    [task |-> IF task.meta THEN WithOriginalText(task, PyStr(pytodo_task)) ELSE task,
     todo |-> IF TargetIsDone(task) THEN files.todo ELSE append_task(files.todo, pytodo_task),
     done |-> IF TargetIsDone(task) THEN append_task(files.done, pytodo_task) ELSE files.done,
     generated |-> generated]

SaveWithId(task, todo, done, generated) ==
    SaveAppend(task, to_pytodo(task), RemoveStale(task, todo, done), generated)

\* FileTaskRepository.save without an I/O failure: the task after the call,
\* the two files after the call, and whether an identifier was generated
save(task, todo, done, n) ==
    SaveWithId(EnsureId(task, n), todo, done, ~AttrHas(task.attributes, "cmid"))

\* FileTaskRepository.delete without an I/O failure: the two files after it
delete(task, todo, done) ==
    RemoveByText(RemoveByIdFirst(id(task), todo, done), task.original_text)

\* ---- services.TodoService -----------------------------------------------
\* str.upper() on the priorities the caller passes
Upper(p) ==
    IF p = "a" THEN "A" ELSE IF p = "b" THEN "B"
    ELSE IF p = "é" THEN "É" ELSE IF p = "ß" THEN "SS" ELSE p

\* len(priority) == 1 and priority.isalpha() and priority.isupper()
IsSingleUpper(p) == p \in {"A", "B", "É"}

\* _validate_priority raises
PriorityInvalid(p) == p # None /\ p # "" /\ ~IsSingleUpper(p)

\* ---- inputs --------------------------------------------------------------
NoneDescription == << <<"None", "", "">> >>      \* description=None
BlankDescription == NoText                        \* "" or "   "
Descriptions ==
    { <<W("milk")>>,                              \* "milk"
      <<W("milk"), KV("cmid", "zz")>>,            \* "milk cmid:zz"
      <<XTok, W("milk")>> }                       \* "x milk"

\* <<description, priority, due_date>> as passed to create_task and to
\* update_task: the description varies
CreateArgs ==
    {<<d, None, None>> : d \in Descriptions}
    \cup {<<<<W("milk"), KV("due", "soon")>>, None, DueDay>>}    \* "milk due:soon"
UpdateArgs == {<<d, None, None>> : d \in Descriptions}

\* the description is plain; the priority and the due date vary, valid or not
FieldCreateArgs ==
    { <<<<W("milk")>>, None, None>>,
      <<<<W("milk")>>, "a", DueDay>>,
      <<<<W("milk")>>, "AB", None>>,
      <<BlankDescription, None, None>>,
      <<BlankDescription, "AB", None>> }
FieldUpdateArgs ==
    { <<<<W("eggs")>>, None, None>>,
      <<NoneDescription, "a", None>>,
      <<NoneDescription, "", None>>,
      <<NoneDescription, None, DueDay>>,
      <<NoneDescription, "AB", None>>,
      <<<<W("eggs")>>, "AB", DueDay>>,
      <<<<W("eggs"), PrjTok("shop")>>, "AB", None>>,
      <<BlankDescription, "a", DueDay>> }

\* ---- state ---------------------------------------------------------------
VARIABLES
    todo_file,     \* lines of the active file
    done_file,     \* lines of the completed file
    held_task,     \* the task record the caller works with
    holding,       \* whether the caller has a record yet
    uuid_count,    \* identifiers generated so far
    last,          \* the last service call: name, outcome, whether save ran,
                   \* and the file operation that failed during it, if any
    task_list,     \* the TaskList widget: tasks, rows shown, filter, last call
    fs,            \* the directories and files the repository is constructed
                   \* over, and the outcome of the last construction
    config,        \* the lines of ~/.todo/config and the last value saved to it
    writers,       \* two parties at work on the active file: what each has
                   \* read and is about to write, and the lines written so far
    ui             \* the screen: the handler that ran last, the exception that
                   \* left it, whether it notified, and the completed list

\* what the service and the widget leave alone
env_vars == <<fs, config, writers, ui>>

vars == <<todo_file, done_file, held_task, holding, uuid_count, last, task_list, env_vars>>

\* ---- the paths the repository is constructed over ------------------------
\* Canonical paths of files, each in a directory: "h" exists and is writable,
\* "ro" exists and is read-only, "new" may not exist yet (its parent is
\* writable).  "h/link" is a symbolic link to "h/todo.txt".
FilePaths == {"h/todo.txt", "h/done.txt", "ro/todo.txt", "new/done.txt"}
PathNames == FilePaths \cup {"h/link"}
Parent(path) ==
    IF path \in {"h/todo.txt", "h/done.txt"} THEN "h"
    ELSE IF path = "ro/todo.txt" THEN "ro" ELSE "new"
ReadOnly(dir) == dir = "ro"

\* Path(name).resolve(): symbolic links are followed, also dangling ones
resolve(name) == IF name = "h/link" THEN "h/todo.txt" ELSE name

\* a file system: for every path "absent" or the content of the file, the
\* directories that exist, the last constructor call and its outcome
FileSystem(files, dirs) ==
    [files |-> files, dirs |-> dirs, call |-> <<None, None>>, repo |-> "none"]

NoFs == FileSystem([p \in FilePaths |-> "absent"], {"h", "ro"})
\* no config file yet, nothing saved to it
NoConfig == [lines |-> << >>, call |-> <<None, None>>]

\* two parties, neither has read the file
Parties == {"a", "b"}
Idle == [pc |-> "idle", buffer |-> << >>, op |-> <<"none", NoText>>, result |-> "none"]
NoWriters == [party |-> [w \in Parties |-> Idle], written |-> {}, removed |-> {}]

NoTask == Task(NoText, FALSE, None, None, None, << >>, << >>, << >>, FALSE)

\* TodoListScreen before its widgets are mounted: the completed list is
\* hidden and holds no tasks
NoUi ==
    [handler |-> "none", escaped |-> "none", notified |-> FALSE,
     visible |-> FALSE, mounted |-> FALSE, completed |-> << >>,
     confirming |-> FALSE, message |-> NoText, result |-> FALSE, deleted |-> NoTask]

EnvInit == fs = NoFs /\ config = NoConfig /\ writers = NoWriters /\ ui = NoUi

\* TaskList.__init__: no tasks, no rows, no filter, not mounted
NewTaskList ==
    [tasks |-> << >>, rows |-> << >>, filter_contexts |-> {}, filter_projects |-> {},
     initialized |-> FALSE, classes |-> {}, focused_task_index |-> 0,
     op |-> "init", attribute |-> None]

Faulted(op, result, saved, fault) ==
    [op |-> op, result |-> result, saved |-> saved, fault |-> fault]
Called(op, result, saved) == Faulted(op, result, saved, "none")

Init ==
    /\ todo_file = << >>
    /\ done_file = << >>
    /\ held_task = NoTask
    /\ holding = FALSE
    /\ uuid_count = 0
    /\ last = Called("init", "ok", FALSE)
    /\ task_list = NewTaskList
    /\ EnvInit

\* the bounds on identifiers, file length and line length
WithinBounds(r) ==
    /\ Len(r.todo) + Len(r.done) <= MaxLines
    /\ \A i \in 1..Len(r.todo) : Len(r.todo[i]) <= MaxTokens
    /\ \A i \in 1..Len(r.done) : Len(r.done[i]) <= MaxTokens
    /\ r.generated => uuid_count < MaxIds

\* the effect of a returned repository.save(task) on the caller's record
Commit(r, op) ==
    /\ WithinBounds(r)
    /\ todo_file' = r.todo
    /\ done_file' = r.done
    /\ held_task' = r.task
    /\ holding' = TRUE
    /\ uuid_count' = IF r.generated THEN uuid_count + 1 ELSE uuid_count
    /\ last' = Called(op, "ok", TRUE)
    /\ UNCHANGED <<task_list, env_vars>>

Saved(task, op) == Commit(save(task, todo_file, done_file, uuid_count + 1), op)

\* ---- the service calls ---------------------------------------------------
Raised(op, error) ==
    /\ last' = Called(op, error, FALSE)
    /\ UNCHANGED <<todo_file, done_file, holding, uuid_count, task_list, env_vars>>

\* priority.upper() when a priority is given
Normalized(priority) ==
    IF priority # None /\ priority # "" THEN Upper(priority) ELSE priority

WithDue(task, due_date) == IF due_date # None THEN set_due_date(task, due_date) ELSE task

\* Task(description=description, priority=priority), creation_date = today,
\* due_date when given
NewTask(description, priority, due_date) ==
    WithDue([Task(description, FALSE, priority, None, None, << >>, << >>, << >>, FALSE)
                EXCEPT !.creation_date = Today],
            due_date)

\* a create_task that validates only after the record was saved
CommitLate(r, invalid) ==
    /\ WithinBounds(r)
    /\ todo_file' = r.todo
    /\ done_file' = r.done
    /\ held_task' = IF invalid THEN held_task ELSE r.task
    /\ holding' = (holding \/ ~invalid)
    /\ uuid_count' = IF r.generated THEN uuid_count + 1 ELSE uuid_count
    /\ last' = Called("create_task", IF invalid THEN "TaskValidationError" ELSE "ok", TRUE)
    /\ UNCHANGED <<task_list, env_vars>>

create_task_validating_late(description, priority, due_date) ==
    CommitLate(save(NewTask(description, Normalized(priority), due_date),
                    todo_file, done_file, uuid_count + 1),
               description = BlankDescription \/ PriorityInvalid(Normalized(priority)))

\* TodoService.create_task; the caller keeps the returned record
create_task(description, priority, due_date) ==
    IF description = BlankDescription \/ PriorityInvalid(Normalized(priority))
    THEN Raised("create_task", "TaskValidationError") /\ UNCHANGED held_task
    ELSE Saved(NewTask(description, Normalized(priority), due_date), "create_task")

\* the assignments of update_task, in the order the code makes them
WithDescription(task, description) ==
    IF description # NoneDescription THEN [task EXCEPT !.description = description] ELSE task
WithPriority(task, priority) ==
    IF priority # None
    THEN [task EXCEPT !.priority = IF priority # "" THEN priority ELSE None]
    ELSE task
Refreshed(task, description) ==
    IF description # NoneDescription /\ description # NoText
    THEN refresh_metadata(task) ELSE task

\* TodoService.update_task on the caller's record, mutated in place
update_task(description, priority, due_date) ==
    /\ holding
    /\ IF description = BlankDescription
       THEN Raised("update_task", "TaskValidationError") /\ UNCHANGED held_task
       ELSE IF priority # None /\ PriorityInvalid(Normalized(priority))
       THEN Raised("update_task", "TaskValidationError")
            /\ held_task' = WithDescription(held_task, description)
       ELSE Saved(Refreshed(WithDue(WithPriority(WithDescription(held_task, description),
                                                 Normalized(priority)),
                                    due_date),
                            description),
                  "update_task")

\* TodoService.complete_task / reopen_task
complete_task ==
    /\ holding
    /\ Saved(complete(held_task), "complete_task")

reopen_task ==
    /\ holding
    /\ Saved(reopen(held_task), "reopen_task")

\* TodoService.delete_task; the caller still has the record afterwards
Deleted(r) ==
    /\ todo_file' = r.todo
    /\ done_file' = r.done
    /\ last' = Called("delete_task", "ok", FALSE)
    /\ UNCHANGED <<held_task, holding, uuid_count, task_list, env_vars>>

delete_task ==
    /\ holding
    /\ Deleted(delete(held_task, todo_file, done_file))

\* what get_active_tasks() and get_completed_tasks() return now
load_active == get_tasks(todo_file)
load_completed == get_tasks(done_file)

\* TodoService.get_active_tasks / get_completed_tasks; the caller goes on
\* with the i-th returned record
get_active_tasks(i) ==
    /\ i \in 1..Len(load_active)
    /\ held_task' = load_active[i]
    /\ holding' = TRUE
    /\ last' = Called("get_active_tasks", "ok", FALSE)
    /\ UNCHANGED <<todo_file, done_file, uuid_count, task_list, env_vars>>

get_completed_tasks(i) ==
    /\ i \in 1..Len(load_completed)
    /\ held_task' = load_completed[i]
    /\ holding' = TRUE
    /\ last' = Called("get_completed_tasks", "ok", FALSE)
    /\ UNCHANGED <<todo_file, done_file, uuid_count, task_list, env_vars>>

NextWith(createArgs, updateArgs) ==
    \/ \E a \in createArgs : create_task(a[1], a[2], a[3])
    \/ \E a \in updateArgs : update_task(a[1], a[2], a[3])
    \/ complete_task
    \/ reopen_task
    \/ delete_task
    \/ \E i \in 1..MaxLines : get_active_tasks(i)
    \/ \E i \in 1..MaxLines : get_completed_tasks(i)

\* the calls with the descriptions varying
Next == NextWith(CreateArgs, UpdateArgs)
Spec == Init /\ [][Next]_vars

\* the calls with the priority and the due date varying
NextFields == NextWith(FieldCreateArgs, FieldUpdateArgs)
SpecFields == Init /\ [][NextFields]_vars

\* ---- file operations that fail -------------------------------------------
\* The file accesses of save and delete, in the order of the code: the two
\* removals by id, the two removals by text, the append; "read" is the parse
\* of a load.  A failed access raises OSError and leaves its file as it was.
SaveFaults == {"remove_todo", "remove_done", "text_todo", "text_done", "append"}
DeleteFaults == {"remove_todo", "remove_done", "text_todo", "text_done"}

\* a repository that lets the exception of the file access through
RepositoryNoWrap(exc) == exc
\* except Exception as e: raise TaskRepositoryError(...) from e
RepositoryWrap(exc) == IF exc # "ok" THEN "TaskRepositoryError" ELSE "ok"
\* except TaskRepositoryError as e: raise TaskOperationError(...) from e
ServiceWrap(exc) == IF exc = "TaskRepositoryError" THEN "TaskOperationError" ELSE exc

Failing(st) == [st EXCEPT !.exc = "OSError"]

\* _remove_by_id(self.todo_file, task.id)
StageRemoveTodo(st, task_id, fault) ==
    IF task_id = None \/ task_id = "" THEN st
    ELSE IF fault = "remove_todo" THEN Failing(st)
    ELSE [st EXCEPT !.todo = remove_by_id(st.todo, task_id).file,
                    !.found = remove_by_id(st.todo, task_id).found]

\* if not removed: _remove_by_id(self.done_file, task.id)
StageRemoveDone(st, task_id, fault) ==
    IF st.exc # "ok" \/ task_id = None \/ task_id = "" \/ st.found THEN st
    ELSE IF fault = "remove_done" THEN Failing(st)
    ELSE [st EXCEPT !.done = remove_by_id(st.done, task_id).file,
                    !.found = remove_by_id(st.done, task_id).found]

\* _remove_from_file(self.todo_file, original_text)
StageTextTodo(st, original_text, fault) ==
    IF st.exc # "ok" \/ st.found \/ original_text = NoText THEN st
    ELSE IF fault = "text_todo" THEN Failing(st)
    ELSE [st EXCEPT !.todo = remove_from_file(st.todo, original_text).file]

\* _remove_from_file(self.done_file, original_text)
StageTextDone(st, original_text, fault) ==
    IF st.exc # "ok" \/ st.found \/ original_text = NoText THEN st
    ELSE IF fault = "text_done" THEN Failing(st)
    ELSE [st EXCEPT !.done = remove_from_file(st.done, original_text).file]

\* the removals of save and of delete, up to the first access that fails
RemoveStages(task, todo, done, fault) ==
    StageTextDone(
        StageTextTodo(
            StageRemoveDone(
                StageRemoveTodo([todo |-> todo, done |-> done, found |-> FALSE, exc |-> "ok"],
                                id(task), fault),
                id(task), fault),
            task.original_text, fault),
        task.original_text, fault)

\* the append of save; _original_text is updated only when it was reached
StageAppend(st, task, pytodo_task, generated, fault) ==
    IF st.exc # "ok" \/ fault = "append"
    THEN [task |-> task, todo |-> st.todo, done |-> st.done, generated |-> generated,
          exc |-> "OSError"]
    ELSE [task |-> IF task.meta THEN WithOriginalText(task, PyStr(pytodo_task)) ELSE task,
          todo |-> IF TargetIsDone(task) THEN st.todo ELSE append_task(st.todo, pytodo_task),
          done |-> IF TargetIsDone(task) THEN append_task(st.done, pytodo_task) ELSE st.done,
          generated |-> generated, exc |-> "ok"]

SaveStages(task, todo, done, generated, fault) ==
    StageAppend(RemoveStages(task, todo, done, fault), task, to_pytodo(task), generated, fault)

\* FileTaskRepository.save with the access named by fault failing
save_io(task, todo, done, n, fault) ==
    SaveStages(EnsureId(task, n), todo, done, ~AttrHas(task.attributes, "cmid"), fault)

\* FileTaskRepository.delete with the access named by fault failing
delete_io(task, todo, done, fault) == RemoveStages(task, todo, done, fault)

\* the effect of repository.save(task) on the caller's record when a file
\* access may have failed: create_task returns no record then, the other
\* calls have already changed the record they were given
CommitIO(r, op, fault) ==
    /\ WithinBounds(r)
    /\ todo_file' = r.todo
    /\ done_file' = r.done
    /\ held_task' = IF r.exc # "ok" /\ op = "create_task" THEN held_task ELSE r.task
    /\ holding' = (holding \/ r.exc = "ok")
    /\ uuid_count' = IF r.generated THEN uuid_count + 1 ELSE uuid_count
    /\ last' = Faulted(op, ServiceWrap(RepositoryWrap(r.exc)), TRUE,
                       IF r.exc = "ok" THEN "none" ELSE fault)
    /\ UNCHANGED <<task_list, env_vars>>

SavedIO(task, op, fault) ==
    CommitIO(save_io(task, todo_file, done_file, uuid_count + 1, fault), op, fault)

create_task_io(description, priority, due_date, fault) ==
    IF description = BlankDescription \/ PriorityInvalid(Normalized(priority))
    THEN Raised("create_task", "TaskValidationError") /\ UNCHANGED held_task
    ELSE SavedIO(NewTask(description, Normalized(priority), due_date), "create_task", fault)

update_task_io(description, priority, due_date, fault) ==
    /\ holding
    /\ IF description = BlankDescription
       THEN Raised("update_task", "TaskValidationError") /\ UNCHANGED held_task
       ELSE IF priority # None /\ PriorityInvalid(Normalized(priority))
       THEN Raised("update_task", "TaskValidationError")
            /\ held_task' = WithDescription(held_task, description)
       ELSE SavedIO(Refreshed(WithDue(WithPriority(WithDescription(held_task, description),
                                                   Normalized(priority)),
                                      due_date),
                              description),
                    "update_task", fault)

complete_task_io(fault) ==
    /\ holding
    /\ SavedIO(complete(held_task), "complete_task", fault)

reopen_task_io(fault) ==
    /\ holding
    /\ SavedIO(reopen(held_task), "reopen_task", fault)

DeletedIO(r, fault) ==
    /\ todo_file' = r.todo
    /\ done_file' = r.done
    /\ last' = Faulted("delete_task", ServiceWrap(RepositoryWrap(r.exc)), FALSE,
                       IF r.exc = "ok" THEN "none" ELSE fault)
    /\ UNCHANGED <<held_task, holding, uuid_count, task_list, env_vars>>

delete_task_io(fault) ==
    /\ holding
    /\ DeletedIO(delete_io(held_task, todo_file, done_file, fault), fault)

\* a load whose parse fails returns nothing to the caller
LoadFailed(op) ==
    /\ last' = Faulted(op, ServiceWrap(RepositoryWrap("OSError")), FALSE, "read")
    /\ UNCHANGED <<todo_file, done_file, held_task, holding, uuid_count, task_list, env_vars>>

get_active_tasks_io(i, fault) ==
    IF fault = "read" THEN i = 1 /\ LoadFailed("get_active_tasks") ELSE get_active_tasks(i)

get_completed_tasks_io(i, fault) ==
    IF fault = "read" THEN i = 1 /\ LoadFailed("get_completed_tasks") ELSE get_completed_tasks(i)

IOCreateArgs == {<<<<W("milk")>>, None, None>>, <<<<W("milk"), KV("cmid", "zz")>>, None, None>>}
IOUpdateArgs == {<<<<W("eggs")>>, None, None>>, <<NoneDescription, "AB", None>>}

\* the calls with any one file access failing
NextIO ==
    \/ \E a \in IOCreateArgs, f \in SaveFaults \cup {"none"} : create_task_io(a[1], a[2], a[3], f)
    \/ \E a \in IOUpdateArgs, f \in SaveFaults \cup {"none"} : update_task_io(a[1], a[2], a[3], f)
    \/ \E f \in SaveFaults \cup {"none"} : complete_task_io(f)
    \/ \E f \in SaveFaults \cup {"none"} : reopen_task_io(f)
    \/ \E f \in DeleteFaults \cup {"none"} : delete_task_io(f)
    \/ \E i \in 1..MaxLines, f \in {"read", "none"} : get_active_tasks_io(i, f)
    \/ \E i \in 1..MaxLines, f \in {"read", "none"} : get_completed_tasks_io(i, f)
SpecIO == Init /\ [][NextIO]_vars

\* ---- widgets.task_list.TaskList -------------------------------------------
\* set(task.contexts), set(task.projects)
ToSet(seq) == {seq[i] : i \in 1..Len(seq)}

\* a filter that asks for a match in both dimensions
task_matches_both(tl, task) ==
    \/ (tl.filter_contexts = {} /\ tl.filter_projects = {})
    \/ /\ ToSet(task.contexts) \cap tl.filter_contexts # {}
       /\ ToSet(task.projects) \cap tl.filter_projects # {}

\* TaskList._task_matches_filter
task_matches_filter(tl, task) ==
    IF ~(tl.filter_contexts # {} \/ tl.filter_projects # {}) THEN TRUE
    ELSE IF tl.filter_contexts # {} /\ ToSet(task.contexts) \cap tl.filter_contexts # {} THEN TRUE
    ELSE IF tl.filter_projects # {} /\ ToSet(task.projects) \cap tl.filter_projects # {} THEN TRUE
    ELSE FALSE

\* TaskList.rebuild_layout: one row per task that matches, in list order
rebuild_layout(tl) ==
    [tl EXCEPT !.rows = SelectSeq(tl.tasks, LAMBDA t : task_matches_filter(tl, t))]

\* the texts the sort keys are made of, in the order Python compares them
StrOrder == <<"", EarlyDay, DueDay, "A", "B", "home", "shop", "work">>
StrRank(v) == CHOOSE i \in 1..Len(StrOrder) : StrOrder[i] = v

_extract_first_context(task) == IF task.contexts # << >> THEN task.contexts[1] ELSE ""
_extract_first_project(task) == IF task.projects # << >> THEN task.projects[1] ELSE ""
_extract_due_date(task) == IF get_due_date(task) # None THEN get_due_date(task) ELSE ""

\* keys that carry the value alone, so that a missing value sorts first
SortKeyValueOnly(attribute, t) ==
    <<FALSE,
      IF attribute = "priority" THEN (IF t.priority = None THEN "" ELSE t.priority)
      ELSE IF attribute = "context" THEN _extract_first_context(t)
      ELSE IF attribute = "project" THEN _extract_first_project(t)
      ELSE IF attribute = "due" THEN _extract_due_date(t)
      ELSE IF t.creation_date # None THEN t.creation_date ELSE "">>

\* the key= of each sorted() call in apply_sort: a pair
SortKey(attribute, t) ==
    IF attribute = "priority"
    THEN <<t.priority = None, IF t.priority = None THEN "" ELSE t.priority>>
    ELSE IF attribute = "context"
    THEN <<_extract_first_context(t) = "", _extract_first_context(t)>>
    ELSE IF attribute = "project"
    THEN <<_extract_first_project(t) = "", _extract_first_project(t)>>
    ELSE IF attribute = "due"
    THEN <<_extract_due_date(t) = "", _extract_due_date(t)>>
    ELSE <<t.creation_date = None, IF t.creation_date # None THEN t.creation_date ELSE "">>

\* tuple comparison: False before True, then the texts
KeyLess(a, b) == (~a[1] /\ b[1]) \/ (a[1] = b[1] /\ StrRank(a[2]) < StrRank(b[2]))

\* an insertion that puts a task in front of the tasks with an equal key
InsertInFront(sorted, t, attribute) ==
    SelectSeq(sorted, LAMBDA e : KeyLess(SortKey(attribute, e), SortKey(attribute, t)))
    \o <<t>>
    \o SelectSeq(sorted, LAMBDA e : ~KeyLess(SortKey(attribute, e), SortKey(attribute, t)))

\* sorted(): every task is inserted behind the tasks whose key is not greater
Insert(sorted, t, attribute) ==
    SelectSeq(sorted, LAMBDA e : ~KeyLess(SortKey(attribute, t), SortKey(attribute, e)))
    \o <<t>>
    \o SelectSeq(sorted, LAMBDA e : KeyLess(SortKey(attribute, t), SortKey(attribute, e)))

Sorted(tasks, attribute) ==
    LET ins[n \in 0..Len(tasks)] ==
            IF n = 0 THEN << >> ELSE Insert(ins[n - 1], tasks[n], attribute)
    IN  ins[Len(tasks)]

SortAttributes == {"priority", "context", "project", "due", "created"}

\* the widget after a call, with the call noted
ListCalled(tl, op, attribute) == [tl EXCEPT !.op = op, !.attribute = attribute]

\* what a call on the widget leaves alone
service_vars == <<todo_file, done_file, held_task, holding, uuid_count, last>>

\* TaskList.on_mount / refresh_tasks
on_mount ==
    /\ task_list' = ListCalled(rebuild_layout([task_list EXCEPT !.initialized = TRUE,
                                                                !.tasks = load_active]),
                               "on_mount", None)
    /\ UNCHANGED <<service_vars, env_vars>>

refresh_tasks ==
    /\ task_list.initialized
    /\ task_list' = ListCalled(rebuild_layout([task_list EXCEPT !.tasks = load_active]),
                               "refresh_tasks", None)
    /\ UNCHANGED <<service_vars, env_vars>>

\* TaskList.is_filtered
is_filtered(tl) == tl.filter_contexts # {} \/ tl.filter_projects # {}

\* a widget that gets the class and never loses it
add_filtered_class(tl) ==
    IF is_filtered(tl) THEN [tl EXCEPT !.classes = @ \cup {"filtered"}] ELSE tl

\* TaskList._update_filtered_class
update_filtered_class(tl) ==
    IF is_filtered(tl) THEN [tl EXCEPT !.classes = @ \cup {"filtered"}]
    ELSE [tl EXCEPT !.classes = @ \ {"filtered"}]

\* the rows are rebuilt only once the widget is mounted
Rebuilt(tl) == IF tl.initialized THEN rebuild_layout(tl) ELSE tl

\* TaskList.apply_filter / clear_filter
apply_filter(contexts, projects) ==
    /\ task_list' = ListCalled(Rebuilt(update_filtered_class(
                                   [task_list EXCEPT !.filter_contexts = contexts,
                                                     !.filter_projects = projects])),
                               "apply_filter", None)
    /\ UNCHANGED <<service_vars, env_vars>>

clear_filter ==
    /\ task_list' = ListCalled(Rebuilt(update_filtered_class(
                                   [task_list EXCEPT !.filter_contexts = {},
                                                     !.filter_projects = {}])),
                               "clear_filter", None)
    /\ UNCHANGED <<service_vars, env_vars>>

\* TaskList.apply_sort
apply_sort(attribute) ==
    /\ task_list' = ListCalled(rebuild_layout([task_list EXCEPT !.tasks = Sorted(@, attribute)]),
                               "apply_sort", attribute)
    /\ UNCHANGED <<service_vars, env_vars>>

\* TaskList.get_task_at_cursor: the index is taken in self.tasks; None (a
\* record without description here) when it is out of range
get_task_at_cursor(tl) ==
    IF 0 <= tl.focused_task_index /\ tl.focused_task_index < Len(tl.tasks)
    THEN tl.tasks[tl.focused_task_index + 1] ELSE NoTask

\* TaskList._update_focus_styling, run at the end of rebuild_layout and by the
\* watcher of focused_task_index: the i-th row gets the class "focused" when
\* i is the index; the task shown in that row, None when no row has the class
focused_row(tl) ==
    IF 0 <= tl.focused_task_index /\ tl.focused_task_index < Len(tl.rows)
    THEN tl.rows[tl.focused_task_index + 1] ELSE NoTask

\* TaskList.move_focus_down / move_focus_up
move_focus_down(tl) ==
    IF tl.focused_task_index < Len(tl.tasks) - 1
    THEN [tl EXCEPT !.focused_task_index = @ + 1] ELSE tl

move_focus_up(tl) ==
    IF tl.focused_task_index > 0
    THEN [tl EXCEPT !.focused_task_index = @ - 1] ELSE tl

\* TaskList.action_move_down / action_move_up (the arrow keys)
action_move_down ==
    /\ task_list.initialized
    /\ task_list' = ListCalled(move_focus_down(task_list), "move_down", None)
    /\ UNCHANGED <<service_vars, env_vars>>

action_move_up ==
    /\ task_list.initialized
    /\ task_list' = ListCalled(move_focus_up(task_list), "move_up", None)
    /\ UNCHANGED <<service_vars, env_vars>>

\* TaskList.action_delete (the delete key): delete_task_at_cursor, which
\* returns when there is no task at the cursor, and else deletes it and
\* refreshes the list
action_delete ==
    /\ task_list.initialized
    /\ get_task_at_cursor(task_list) # NoTask
    /\ todo_file' = delete(get_task_at_cursor(task_list), todo_file, done_file).todo
    /\ done_file' = delete(get_task_at_cursor(task_list), todo_file, done_file).done
    /\ task_list' = ListCalled(
           rebuild_layout([task_list EXCEPT !.tasks =
               get_tasks(delete(get_task_at_cursor(task_list), todo_file, done_file).todo)]),
           "delete", None)
    /\ UNCHANGED <<held_task, holding, uuid_count, last, env_vars>>

\* lines a todo.txt may hold when the widget loads it
ListLines ==
    { <<PriTok("A"), DateTok(EarlyDay), W("milk"), CtxTok("home"), PrjTok("shop"),
        KV("due", DueDay), KV("cmid", "a1")>>,
      <<PriTok("B"), W("eggs"), CtxTok("work"), KV("cmid", "a2")>>,
      <<PriTok("A"), W("tea"), PrjTok("shop"), KV("due", EarlyDay), KV("cmid", "a3")>>,
      <<DateTok(DueDay), W("bread"), KV("due", "soon"), KV("cmid", "a4")>>,
      <<W("jam"), CtxTok("home"), CtxTok("work"), KV("due", EarlyDay)>> }

\* files of at most MaxRows different lines
ListFiles ==
    UNION {{f \in [1..n -> ListLines] : \A i, j \in 1..n : i # j => f[i] # f[j]} : n \in 0..MaxRows}

InitList ==
    /\ todo_file \in ListFiles
    /\ done_file = << >>
    /\ held_task = NoTask
    /\ holding = FALSE
    /\ uuid_count = 0
    /\ last = Called("init", "ok", FALSE)
    /\ task_list = NewTaskList
    /\ EnvInit

NextList ==
    \/ on_mount
    \/ refresh_tasks
    \/ \E c \in SUBSET {"home", "work"}, p \in SUBSET {"shop"} : apply_filter(c, p)
    \/ clear_filter
    \/ \E a \in SortAttributes : apply_sort(a)
SpecList == InitList /\ [][NextList]_vars

\* the widget with its cursor: the keys that move it and the delete key
NextCursor ==
    \/ on_mount
    \/ refresh_tasks
    \/ \E c \in SUBSET {"work"}, p \in SUBSET {"shop"} : apply_filter(c, p)
    \/ clear_filter
    \/ \E a \in {"priority", "due"} : apply_sort(a)
    \/ action_move_down
    \/ action_move_up
    \/ action_delete
SpecCursor == InitList /\ [][NextCursor]_vars

\* ---- FileTaskRepository.__init__ -------------------------------------------
\* a _create_file_if_missing that touches without looking
create_file_always(f, path) ==
    IF f.repo # "none" THEN f
    ELSE IF ReadOnly(Parent(path)) THEN [f EXCEPT !.repo = "ValueError"]
    ELSE [f EXCEPT !.dirs = @ \cup {Parent(path)}, !.files[path] = ""]

\* _create_file_if_missing: nothing when the path exists; otherwise the parent
\* directories are made and the file is touched, which fails in a directory
\* that cannot be written (the exception becomes the ValueError of __init__)
create_file_if_missing(f, path) ==
    IF f.repo # "none" \/ f.files[path] # "absent" THEN f
    ELSE IF ReadOnly(Parent(path)) THEN [f EXCEPT !.repo = "ValueError"]
    ELSE [f EXCEPT !.dirs = @ \cup {Parent(path)}, !.files[path] = ""]

\* _ensure_files_exist: the active file, then the completed file
ensure_files_exist(f, todo_path, done_path) ==
    create_file_if_missing(create_file_if_missing(f, todo_path), done_path)

Returned(f) == IF f.repo = "none" THEN [f EXCEPT !.repo = "ok"] ELSE f

\* a construction that does not compare the two paths
ConstructedUnchecked(f, todo_path, done_path) ==
    Returned(ensure_files_exist(f, todo_path, done_path))

\* FileTaskRepository(todo_name, done_name)
Constructed(f, todo_path, done_path) ==
    IF todo_path = done_path THEN [f EXCEPT !.repo = "ValueError"]
    ELSE Returned(ensure_files_exist(f, todo_path, done_path))

construct(todo_name, done_name) ==
    /\ fs' = Constructed([fs EXCEPT !.call = <<todo_name, done_name>>, !.repo = "none"],
                         resolve(todo_name), resolve(done_name))
    /\ UNCHANGED <<service_vars, task_list, config, writers, ui>>

\* the file systems a construction may find: any file present, empty or with
\* tasks; a directory exists when a file in it does
InitialFileSystems ==
    {FileSystem(files, dirs) :
        files \in [FilePaths -> {"absent", "", "tasks"}],
        dirs \in {{"h", "ro"}, {"h", "ro", "new"}}}

InitFs ==
    /\ todo_file = << >>
    /\ done_file = << >>
    /\ held_task = NoTask
    /\ holding = FALSE
    /\ uuid_count = 0
    /\ last = Called("init", "ok", FALSE)
    /\ task_list = NewTaskList
    /\ fs \in InitialFileSystems
    /\ config = NoConfig
    /\ writers = NoWriters
    /\ ui = NoUi
    /\ fs.files["new/done.txt"] # "absent" => "new" \in fs.dirs

NextFs == \E t \in PathNames, d \in PathNames : construct(t, d)
SpecFs == InitFs /\ [][NextFs]_vars

\* ---- the service over files that already hold tasks -----------------------

\* lines the active file may hold at start: with an id, without one (written
\* before ids existed, or by an editor), and a second one with its own id
ActiveLines ==
    { <<W("milk"), CtxTok("home"), PrjTok("shop"), KV("cmid", "a1")>>,
      <<W("eggs"), CtxTok("work"), CtxTok("home")>>,
      <<W("tea"), CtxTok("home"), KV("cmid", "a2")>> }

\* lines the completed file may hold at start: one with the id of an active
\* line (an external edit copied it), and one without an id
CompletedLines ==
    { <<XTok, DateTok(EarlyDay), W("milk"), CtxTok("home"), KV("cmid", "a1")>>,
      <<XTok, W("eggs"), CtxTok("work"), CtxTok("home")>> }

\* files of different lines
FilesOver(lines) ==
    UNION {{f \in [1..n -> lines] : \A i, j \in 1..n : i # j => f[i] # f[j]} : n \in 0..MaxLines}

StoredFiles ==
    {p \in FilesOver(ActiveLines) \X FilesOver(CompletedLines) : Len(p[1]) + Len(p[2]) <= MaxLines}

TagCreateArgs == {<<<<W("jam"), CtxTok("work"), PrjTok("shop")>>, None, None>>}
TagUpdateArgs == {<<<<W("eggs"), CtxTok("work")>>, None, None>>}

InitFiles ==
    /\ todo_file \in FilesOver(ActiveLines)
    /\ done_file \in FilesOver(CompletedLines)
    /\ <<todo_file, done_file>> \in StoredFiles
    /\ held_task = NoTask
    /\ holding = FALSE
    /\ uuid_count = 0
    /\ last = Called("init", "ok", FALSE)
    /\ task_list = NewTaskList
    /\ EnvInit

NextFiles == NextWith(TagCreateArgs, TagUpdateArgs)
SpecFiles == InitFiles /\ [][NextFiles]_vars

\* ---- TodoService.get_unique_contexts / get_unique_projects ----------------

\* sorted(a set of strings)
SortedList(S) ==
    CHOOSE s \in [1..Cardinality(S) -> S] :
        \A i, j \in 1..Cardinality(S) : i < j => StrRank(s[i]) < StrRank(s[j])

\* contexts.update(task.contexts) / projects.update(task.projects) over tasks
ContextsOver(tasks) == UNION {ToSet(tasks[i].contexts) : i \in 1..Len(tasks)}
ProjectsOver(tasks) == UNION {ToSet(tasks[i].projects) : i \in 1..Len(tasks)}

\* the same calls reading the completed tasks as well
get_unique_contexts_of_all == SortedList(ContextsOver(load_active \o load_completed))

get_unique_contexts == SortedList(ContextsOver(load_active))
get_unique_projects == SortedList(ProjectsOver(load_active))

\* ---- config.load_config / config.save_config_value ------------------------

MaxConfigLines == 2     \* lines of the config file

ConfigKeys == {"SORT_ATTRIBUTE", "TODO_FILE"}
ConfigValues == {"priority", "due", "context"}

\* a line of the config file: KEY=VALUE, a comment (which may hold a "="),
\* a blank line, or text without "="
ConfigLines ==
    {KV(k, v) : k \in ConfigKeys, v \in ConfigValues}
    \cup {<<"comment", "", "">>, <<"blank", "", "">>, <<"text", "", "">>}

\* stripped and not stripped.startswith("#") and "=" in stripped
IsEntry(line) == line[1] = "kv"

\* load_config: the entries in file order, a later one overwriting an
\* earlier one; None for a key that is not in the dictionary
load_config(lines) ==
    LET cfg[i \in 0..Len(lines)] ==
            IF i = 0 THEN [k \in ConfigKeys |-> None]
            ELSE IF IsEntry(lines[i]) THEN [cfg[i - 1] EXCEPT ![lines[i][2]] = lines[i][3]]
            ELSE cfg[i - 1]
    IN  cfg[Len(lines)]

\* the loop of save_config_value: the first entry of the key is replaced and
\* the loop left; without one the entry is appended
ConfigWritten(lines, key, value) ==
    IF \E i \in 1..Len(lines) : IsEntry(lines[i]) /\ lines[i][2] = key
    THEN [lines EXCEPT ![CHOOSE i \in 1..Len(lines) :
                            /\ IsEntry(lines[i]) /\ lines[i][2] = key
                            /\ \A j \in 1..(i - 1) : ~(IsEntry(lines[j]) /\ lines[j][2] = key)]
                        = KV(key, value)]
    ELSE Append(lines, KV(key, value))

\* save_config_value(key, value): read the lines, update, write them back
save_config_value(key, value) ==
    /\ Len(ConfigWritten(config.lines, key, value)) <= MaxConfigLines
    /\ config' = [lines |-> ConfigWritten(config.lines, key, value), call |-> <<key, value>>]
    /\ UNCHANGED <<service_vars, task_list, fs, writers, ui>>

ConfigFiles == UNION {[1..n -> ConfigLines] : n \in 0..MaxConfigLines}

InitConfig ==
    /\ todo_file = << >>
    /\ done_file = << >>
    /\ held_task = NoTask
    /\ holding = FALSE
    /\ uuid_count = 0
    /\ last = Called("init", "ok", FALSE)
    /\ task_list = NewTaskList
    /\ fs = NoFs
    /\ config \in [lines : ConfigFiles, call : {<<None, None>>}]
    /\ writers = NoWriters
    /\ ui = NoUi

NextConfig == \E k \in ConfigKeys, v \in ConfigValues : save_config_value(k, v)
SpecConfig == InitConfig /\ [][NextConfig]_vars

\* ---- two repositories (or an editor) on one file ---------------------------

\* the line a party appends, and the id it removes by
PartyLine(w) ==
    IF w = "a" THEN <<W("milk"), KV("cmid", "a1")>> ELSE <<W("eggs"), KV("cmid", "a2")>>
PartyOps(w) == {<<"append", PartyLine(w)>>, <<"remove", PartyLine(w)>>}

\* a write made on the file as it is at the time of the write
WriteBackFresh(file, buffer, op) ==
    IF op[1] = "append" THEN TodoTxtSave(TodoTxtParse(file) \o <<PyParse(op[2])>>)
    ELSE RemoveId(file, TodoTxtParse(file), StoredId(PyParse(op[2]))).file

\* the second half of save's append and of _remove_by_id, made on the tasks
\* the party parsed earlier: todotxt.tasks.append(t) or .remove(t), then
\* todotxt.save(), which writes the whole file
WriteBack(file, buffer, op) ==
    IF op[1] = "append" THEN TodoTxtSave(buffer \o <<PyParse(op[2])>>)
    ELSE RemoveId(file, buffer, StoredId(PyParse(op[2]))).file

\* todotxt = TodoTxt(path); todotxt.parse(): the party reads the whole file
parse(w, op) ==
    /\ writers.party[w].pc = "idle"
    /\ writers' = [writers EXCEPT !.party[w] =
                       [pc |-> "parsed", buffer |-> TodoTxtParse(todo_file),
                        op |-> op, result |-> "none"]]
    /\ UNCHANGED <<todo_file, done_file, held_task, holding, uuid_count, last, task_list,
                   fs, config, ui>>

\* todotxt.save(): the party writes what it read, with its change; nothing
\* compares the file with what was read, so the call returns normally
write(w) ==
    /\ writers.party[w].pc = "parsed"
    /\ Len(WriteBack(todo_file, writers.party[w].buffer, writers.party[w].op)) <= MaxLines
    /\ todo_file' = WriteBack(todo_file, writers.party[w].buffer, writers.party[w].op)
    /\ writers' = [writers EXCEPT
                       !.party[w].pc = "idle",
                       !.party[w].result = "ok",
                       !.written = IF writers.party[w].op[1] = "append"
                                   THEN @ \cup {writers.party[w].op[2]} ELSE @,
                       !.removed = IF writers.party[w].op[1] = "remove"
                                   THEN @ \cup {writers.party[w].op[2]} ELSE @]
    /\ UNCHANGED <<done_file, held_task, holding, uuid_count, last, task_list, fs, config,
                   ui>>

NextWriters ==
    \/ \E w \in Parties : \E op \in PartyOps(w) : parse(w, op)
    \/ \E w \in Parties : write(w)
SpecWriters == Init /\ [][NextWriters]_vars

\* ---- screens.TodoListScreen and the handlers of the two lists -------------

\* a handler runs only while the application does: an exception that leaves
\* a handler ends it
Running == ui.escaped = "none" /\ ~ui.confirming

\* the screen after a handler: what left it, and whether it notified
Ui(handler, escaped, notified) ==
    [ui EXCEPT !.handler = handler, !.escaped = escaped, !.notified = notified,
               !.result = FALSE, !.deleted = NoTask]

\* a service call that is made outside any try block
Unguarded(handler, fault) ==
    Ui(handler, IF fault = "none" THEN "none" ELSE "TaskOperationError", FALSE)

\* a service call that is made inside try ... except TaskOperationError:
\* self.app.notify(...)
Guarded(handler, fault) == Ui(handler, "none", fault # "none")

\* TaskList.refresh_tasks when the load returns
RefreshedList(tl, todo, handler) ==
    ListCalled(rebuild_layout([tl EXCEPT !.tasks = get_tasks(todo)]), handler, None)

\* the accesses the handlers are run against: each works or fails
UiSaveFaults == {"none", "append"}
UiDeleteFaults == {"none", "remove_todo"}
ReadFaults == {"none", "read"}

\* TaskList.on_mount: _initialized = True; refresh_tasks()
TaskList_on_mount(read) ==
    /\ Running /\ ~task_list.initialized
    /\ task_list' = IF read = "read" THEN [task_list EXCEPT !.initialized = TRUE]
                    ELSE RefreshedList([task_list EXCEPT !.initialized = TRUE],
                                       todo_file, "on_mount")
    /\ ui' = Unguarded("on_mount", read)
    /\ UNCHANGED <<service_vars, fs, config, writers>>

\* CompletedTaskList.on_mount: _initialized = True; refresh_tasks()
CompletedTaskList_on_mount(read) ==
    /\ Running /\ ~ui.mounted
    /\ ui' = [Unguarded("completed_on_mount", read) EXCEPT
                  !.mounted = TRUE,
                  !.completed = IF read = "read" THEN @ ELSE load_completed]
    /\ UNCHANGED <<service_vars, task_list, fs, config, writers>>

\* TodoListScreen.action_toggle_completed: the list is refreshed when shown
action_toggle_completed(read) ==
    /\ Running /\ ui.mounted
    /\ ui' = IF ui.visible THEN [Ui("toggle_completed", "none", FALSE) EXCEPT !.visible = FALSE]
             ELSE IF read = "read" THEN Unguarded("toggle_completed", read)
             ELSE [Ui("toggle_completed", "none", FALSE) EXCEPT
                       !.visible = TRUE, !.completed = load_completed]
    /\ UNCHANGED <<service_vars, task_list, fs, config, writers>>

\* TaskList.apply_filter as the filter screen's callback makes it
AppliedFilter(tl, contexts, projects) ==
    ListCalled(Rebuilt(update_filtered_class([tl EXCEPT !.filter_contexts = contexts,
                                                       !.filter_projects = projects])),
               "apply_filter", None)

\* TodoListScreen.action_filter: get_unique_contexts() and
\* get_unique_projects(), then the filter screen, whose result is applied
action_filter(read, contexts, projects) ==
    /\ Running /\ task_list.initialized
    /\ read = "none" => /\ contexts \subseteq ToSet(get_unique_contexts)
                        /\ projects \subseteq ToSet(get_unique_projects)
    /\ read = "read" => contexts = {} /\ projects = {}
    /\ task_list' = IF read = "read" THEN task_list
                    ELSE AppliedFilter(task_list, contexts, projects)
    /\ ui' = Unguarded("filter", read)
    /\ UNCHANGED <<service_vars, fs, config, writers>>

\* what repository.save leaves in the files and the id counter
SavedFiles(r) ==
    /\ WithinBounds(r)
    /\ todo_file' = r.todo
    /\ done_file' = r.done
    /\ uuid_count' = IF r.generated THEN uuid_count + 1 ELSE uuid_count

\* a handler that saves in the modal screen (inside its try block) and
\* refreshes the list in the callback of the modal, outside any try block
AfterModal(r, tl, handler, read) ==
    /\ SavedFiles(r)
    /\ task_list' = IF r.exc # "ok" \/ read = "read" THEN tl
                    ELSE RefreshedList(tl, r.todo, handler)
    /\ ui' = IF r.exc # "ok" THEN Guarded(handler, "save") ELSE Unguarded(handler, read)

\* TodoListScreen.action_add_todo: CreateTaskScreen.action_submit calls
\* create_task; on success on_modal_result calls refresh_tasks
action_add_todo(description, priority, due_date, fault, read) ==
    /\ Running /\ task_list.initialized
    /\ AfterModal(save_io(NewTask(description, Normalized(priority), due_date),
                          todo_file, done_file, uuid_count + 1, fault),
                  task_list, "add_todo", read)
    /\ UNCHANGED <<held_task, holding, last, fs, config, writers>>

\* the assignments of update_task on a record of the list
Updated(task, description, priority, due_date) ==
    Refreshed(WithDue(WithPriority(WithDescription(task, description), Normalized(priority)),
                      due_date),
              description)

\* a record of the list changed in place
WithRecord(tl, i, task) == [tl EXCEPT !.tasks[i] = task]

\* TodoListScreen.action_edit_todo on the task at the cursor
action_edit_todo(i, description, priority, due_date, fault, read) ==
    /\ Running /\ task_list.initialized
    /\ i = task_list.focused_task_index + 1
    /\ i \in 1..Len(task_list.tasks)
    /\ AfterModal(save_io(Updated(task_list.tasks[i], description, priority, due_date),
                          todo_file, done_file, uuid_count + 1, fault),
                  WithRecord(task_list, i,
                             save_io(Updated(task_list.tasks[i], description, priority, due_date),
                                     todo_file, done_file, uuid_count + 1, fault).task),
                  "edit_todo", read)
    /\ UNCHANGED <<held_task, holding, last, fs, config, writers>>

\* TaskList.action_complete_todo: complete_task, refresh_tasks and the
\* refresh of the completed list are all inside the try block
Completed(r, i, read) ==
    /\ SavedFiles(r)
    /\ task_list' = IF r.exc # "ok" \/ read = "read" THEN WithRecord(task_list, i, r.task)
                    ELSE RefreshedList(task_list, r.todo, "complete_todo")
    /\ ui' = IF r.exc # "ok" THEN Guarded("complete_todo", "save")
             ELSE IF read = "read" THEN Guarded("complete_todo", read)
             ELSE [Guarded("complete_todo", "none") EXCEPT !.completed = get_tasks(r.done)]

action_complete_todo(i, fault, read) ==
    /\ Running /\ task_list.initialized
    /\ i = task_list.focused_task_index + 1
    /\ i \in 1..Len(task_list.tasks)
    /\ Completed(save_io(complete(task_list.tasks[i]), todo_file, done_file,
                         uuid_count + 1, fault),
                 i, read)
    /\ UNCHANGED <<held_task, holding, last, fs, config, writers>>

\* CompletedTaskList.action_reopen_todo: reopen_task, refresh_tasks and the
\* refresh of the active list are all inside the try block
Reopened(r, i, read) ==
    /\ SavedFiles(r)
    /\ task_list' = IF r.exc # "ok" \/ read = "read" \/ ~task_list.initialized THEN task_list
                    ELSE RefreshedList(task_list, r.todo, "reopen_todo")
    /\ ui' = IF r.exc # "ok"
             THEN [Guarded("reopen_todo", "save") EXCEPT !.completed[i] = r.task]
             ELSE IF read = "read"
             THEN [Guarded("reopen_todo", read) EXCEPT !.completed[i] = r.task]
             ELSE [Guarded("reopen_todo", "none") EXCEPT !.completed = get_tasks(r.done)]

action_reopen_todo(i, fault, read) ==
    /\ Running /\ ui.mounted /\ ui.visible
    /\ i \in 1..Len(ui.completed)
    /\ Reopened(save_io(reopen(ui.completed[i]), todo_file, done_file, uuid_count + 1, fault),
                i, read)
    /\ UNCHANGED <<held_task, holding, last, fs, config, writers>>

\* TodoListScreen._delete_task with the task list in focus and a task at the
\* cursor: delete_task_at_cursor (delete_task, then refresh_tasks) inside the
\* try block; r is what the repository made of the two files
DeletedAtCursor(task, r, handler, read, result) ==
    /\ todo_file' = r.todo
    /\ done_file' = r.done
    /\ task_list' = IF r.exc # "ok" \/ read = "read" THEN task_list
                    ELSE RefreshedList(task_list, r.todo, handler)
    /\ ui' = [Guarded(handler, IF r.exc # "ok" THEN "delete" ELSE read)
                 EXCEPT !.confirming = FALSE, !.deleted = task, !.result = result]

\* TodoListScreen.action_force_delete_todo (the key D): _delete_task
action_force_delete_todo(fault, read) ==
    /\ Running /\ task_list.initialized
    /\ get_task_at_cursor(task_list) # NoTask
    /\ DeletedAtCursor(get_task_at_cursor(task_list),
                       delete_io(get_task_at_cursor(task_list), todo_file, done_file, fault),
                       "force_delete_todo", read, FALSE)
    /\ UNCHANGED <<held_task, holding, uuid_count, last, fs, config, writers>>

\* TodoListScreen.action_delete_todo (the key d): with a task at the cursor
\* the ConfirmScreen is pushed, its message naming the task's description
action_delete_todo ==
    /\ Running /\ task_list.initialized
    /\ get_task_at_cursor(task_list) # NoTask
    /\ ui' = [Ui("delete_todo", "none", FALSE)
                 EXCEPT !.confirming = TRUE,
                        !.message = get_task_at_cursor(task_list).description]
    /\ UNCHANGED <<service_vars, task_list, fs, config, writers>>

ConfirmedAlways(result) == TRUE

\* on_confirm, the callback of the ConfirmScreen: if result: _delete_task()
Confirmed(result) == result

\* ConfirmScreen.dismiss(result) and the callback. The Yes button and y give
\* True; the No button, n and escape give False. _delete_task acts only
\* when the task list has the focus again (has_focus is Textual's)
on_confirm(result, has_focus, fault, read) ==
    /\ ui.escaped = "none" /\ ui.confirming
    /\ IF Confirmed(result) /\ has_focus /\ get_task_at_cursor(task_list) # NoTask
       THEN DeletedAtCursor(get_task_at_cursor(task_list),
                            delete_io(get_task_at_cursor(task_list), todo_file, done_file, fault),
                            "on_confirm", read, result)
       ELSE /\ ui' = [Ui("on_confirm", "none", FALSE)
                         EXCEPT !.confirming = FALSE, !.result = result]
            /\ UNCHANGED <<todo_file, done_file, task_list>>
    /\ UNCHANGED <<held_task, holding, uuid_count, last, fs, config, writers>>

UiCreateArgs == {<<<<W("jam"), CtxTok("work")>>, None, None>>}
UiUpdateArgs == {<<<<W("eggs"), PrjTok("shop")>>, "a", None>>}

InitUi ==
    /\ todo_file = << >>
    /\ done_file = << >>
    /\ held_task = NoTask
    /\ holding = FALSE
    /\ uuid_count = 0
    /\ last = Called("init", "ok", FALSE)
    /\ task_list = NewTaskList
    /\ EnvInit

NextUi ==
    \/ \E r \in ReadFaults : TaskList_on_mount(r)
    \/ \E r \in ReadFaults : CompletedTaskList_on_mount(r)
    \/ \E r \in ReadFaults : action_toggle_completed(r)
    \/ \E r \in ReadFaults, c \in SUBSET {"home", "work"}, p \in SUBSET {"shop"} :
          action_filter(r, c, p)
    \/ \E a \in UiCreateArgs, f \in UiSaveFaults, r \in ReadFaults :
          action_add_todo(a[1], a[2], a[3], f, r)
    \/ \E i \in 1..MaxLines, a \in UiUpdateArgs, f \in UiSaveFaults, r \in ReadFaults :
          action_edit_todo(i, a[1], a[2], a[3], f, r)
    \/ \E i \in 1..MaxLines, f \in UiSaveFaults, r \in ReadFaults : action_complete_todo(i, f, r)
    \/ \E i \in 1..MaxLines, f \in UiSaveFaults, r \in ReadFaults : action_reopen_todo(i, f, r)
    \/ \E f \in UiDeleteFaults, r \in ReadFaults : action_force_delete_todo(f, r)
    \/ action_delete_todo
    \/ \E b \in BOOLEAN, h \in BOOLEAN, f \in UiDeleteFaults, r \in ReadFaults :
          on_confirm(b, h, f, r)
SpecUi == InitUi /\ [][NextUi]_vars

\* ---- the keys that delete, with the cursor anywhere in the list -------------

\* TodoListScreen.action_cursor_down / action_cursor_up (the keys j and k),
\* with the task list in focus
action_cursor_down ==
    /\ Running /\ task_list.initialized
    /\ task_list' = ListCalled(move_focus_down(task_list), "cursor_down", None)
    /\ ui' = Ui("cursor_down", "none", FALSE)
    /\ UNCHANGED <<service_vars, fs, config, writers>>

action_cursor_up ==
    /\ Running /\ task_list.initialized
    /\ task_list' = ListCalled(move_focus_up(task_list), "cursor_up", None)
    /\ ui' = Ui("cursor_up", "none", FALSE)
    /\ UNCHANGED <<service_vars, fs, config, writers>>

InitConfirm ==
    /\ todo_file \in FilesOver(ActiveLines)
    /\ done_file = << >>
    /\ held_task = NoTask
    /\ holding = FALSE
    /\ uuid_count = 0
    /\ last = Called("init", "ok", FALSE)
    /\ task_list = NewTaskList
    /\ EnvInit

NextConfirm ==
    \/ \E r \in ReadFaults : TaskList_on_mount(r)
    \/ action_cursor_down
    \/ action_cursor_up
    \/ \E f \in UiDeleteFaults, r \in ReadFaults : action_force_delete_todo(f, r)
    \/ action_delete_todo
    \/ \E b \in BOOLEAN, h \in BOOLEAN, f \in UiDeleteFaults, r \in ReadFaults :
          on_confirm(b, h, f, r)
SpecConfirm == InitConfirm /\ [][NextConfirm]_vars

\* ---- the service over files written by earlier runs -------------------------

\* uuid.uuid4().hex[:8] is any of the 16^8 texts, and so is an id that an
\* earlier run stored: the files may hold the texts this run will draw
EarlierLines ==
    { <<W("tea"), CtxTok("home"), KV("cmid", Uuid(1))>>,
      <<W("milk"), KV("cmid", "a1")>> }

InitIds ==
    /\ todo_file \in FilesOver(EarlierLines)
    /\ done_file = << >>
    /\ Len(todo_file) <= MaxLines - 1
    /\ held_task = NoTask
    /\ holding = FALSE
    /\ uuid_count = 0
    /\ last = Called("init", "ok", FALSE)
    /\ task_list = NewTaskList
    /\ EnvInit

SpecIds == InitIds /\ [][NextFiles]_vars

\* ---- the service with priorities of every kind -------------------------------

\* priorities the caller may pass: none, a lower-case letter, two letters, a
\* digit, and letters outside ASCII
PriorityCreateArgs ==
    {<<<<W("milk")>>, p, None>> : p \in {None, "a", "AB", "1", "é", "ß"}}
PriorityUpdateArgs ==
    {<<NoneDescription, p, None>> : p \in {"", "b", "1", "é"}}
    \cup {<<<<W("eggs")>>, None, None>>}

NextPriority == NextWith(PriorityCreateArgs, PriorityUpdateArgs)
SpecPriority == Init /\ [][NextPriority]_vars

\* ---- the service over a file an editor wrote --------------------------------

\* lines written by hand carry no id, and the same text may be there twice
TwinLines ==
    { <<W("eggs"), CtxTok("work")>>,
      <<W("tea"), KV("cmid", "a2")>> }

InitTwins ==
    /\ todo_file \in UNION {[1..n -> TwinLines] : n \in 1..MaxLines}
    /\ done_file = << >>
    /\ held_task = NoTask
    /\ holding = FALSE
    /\ uuid_count = 0
    /\ last = Called("init", "ok", FALSE)
    /\ task_list = NewTaskList
    /\ EnvInit

SpecTwins == InitTwins /\ [][NextFiles]_vars

\* ---- what the claims speak about ----------------------------------------
SaveCalls == {"create_task", "update_task", "complete_task", "reopen_task"}

\* lines of a file that carry the token cmid:<task_id>
LinesCarrying(file, task_id) ==
    Cardinality({i \in 1..Len(file) : \E j \in 1..Len(file[i]) : file[i][j] = KV("cmid", task_id)})

\* records of a loaded list whose id is task_id
WithId(records, task_id) == {i \in 1..Len(records) : id(records[i]) = task_id}

SaveReturned == last.op \in SaveCalls /\ last.result = "ok"

\* C1 -- Exclusivity: right after a save(task) that returned without error,
\* exactly one stored line carries task.id, counting both files.
C1_Exclusivity ==
    SaveReturned =>
        LinesCarrying(todo_file, id(held_task)) + LinesCarrying(done_file, id(held_task)) = 1

\* C2 -- Identity stability: a save of a record that already has an id, after
\* any change of description, priority, due date or completion state, leaves
\* the record's id as it was.
C2_IdentityStable ==
    [][(holding /\ id(held_task) # None
          /\ last'.op \in {"update_task", "complete_task", "reopen_task"})
       => id(held_task') = id(held_task)]_vars

C2_Witness ==
    /\ last.op = "update_task" /\ last.result = "ok"
    /\ id(held_task) = "u1"
    /\ held_task.description = <<W("eggs")>>
    /\ held_task.priority = "A"
    /\ AttrHas(held_task.attributes, "due")
    /\ held_task.is_completed

C4_CompleteMoves ==
    [][(last'.op = "complete_task" /\ last'.result = "ok"
          /\ WithId(load_active, id(held_task)) # {})
       => LET tid == id(held_task')
              active == get_tasks(todo_file')
              completed == get_tasks(done_file')
          IN  /\ WithId(active, tid) = {}
              /\ Cardinality(WithId(completed, tid)) = 1
              /\ \A i \in WithId(completed, tid) :
                    completed[i].is_completed /\ completed[i].completion_date = Today]_vars

\* C5 -- Reopening moves the task back: when a record of the completed list
\* has the task's id, then after reopen_task(task) no completed record has
\* that id and exactly one active record has it, not completed and without a
\* completion date.
C5_ReopenMoves ==
    [][(last'.op = "reopen_task" /\ last'.result = "ok"
          /\ WithId(load_completed, id(held_task)) # {})
       => LET tid == id(held_task')
              active == get_tasks(todo_file')
              completed == get_tasks(done_file')
          IN  /\ WithId(completed, tid) = {}
              /\ Cardinality(WithId(active, tid)) = 1
              /\ \A i \in WithId(active, tid) :
                    ~active[i].is_completed /\ active[i].completion_date = None]_vars

\* C6 -- Delete removes the task: after delete_task(task) for a task that
\* has an id, neither loaded list holds a record with that id.
C6_DeleteRemoves ==
    (last.op = "delete_task" /\ last.result = "ok" /\ id(held_task) # None) =>
        /\ WithId(load_active, id(held_task)) = {}
        /\ WithId(load_completed, id(held_task)) = {}

\* no stored task has the record's id, and no stored line is its last-known text
NoMatch(task) ==
    \A file \in {todo_file, done_file} :
        \A i \in 1..Len(TodoTxtParse(file)) :
            /\ StoredId(TodoTxtParse(file)[i]) # id(task)
            /\ PyStr(TodoTxtParse(file)[i]) # task.original_text

\* C7 -- Delete is idempotent: delete(task) for a task that matches no line
\* by id or by last-known text returns and leaves both files as they were,
\* and a second delete(task) right after a first one changes nothing more.
C7_DeleteIdempotent ==
    [][/\ (last'.op = "delete_task" /\ NoMatch(held_task))
            => (last'.result = "ok" /\ UNCHANGED <<todo_file, done_file>>)
       /\ (last.op = "delete_task" /\ last'.op = "delete_task")
            => UNCHANGED <<todo_file, done_file>>]_vars

\* C8 -- Deleted is absorbing: once delete(task) has left no line carrying
\* the task's id, a later save of that same record (by update, complete or
\* reopen) does not make such a line appear again.
C8_DeletedAbsorbing ==
    [][(/\ last.op = "delete_task" /\ last.result = "ok"
        /\ LinesCarrying(todo_file, id(held_task)) + LinesCarrying(done_file, id(held_task)) = 0
        /\ last'.op \in {"update_task", "complete_task", "reopen_task"})
       => LinesCarrying(todo_file', id(held_task'))
            + LinesCarrying(done_file', id(held_task')) = 0]_vars

\* C9 -- Creation adds exactly one active record: after create_task the
\* active list is one record longer, the added record has the description
\* that was given, today's creation date and is not completed, and the
\* completed list is as before.
C9_CreateAddsOne ==
    [][(last'.op = "create_task" /\ last'.result = "ok")
       => LET active == get_tasks(todo_file')
          IN  /\ Len(active) = Len(load_active) + 1
              /\ active[Len(active)].description = held_task'.description
              /\ active[Len(active)].creation_date = Today
              /\ ~active[Len(active)].is_completed
              /\ get_tasks(done_file') = load_completed]_vars

\* C10 -- Validation precedes I/O: when create_task or update_task raises
\* TaskValidationError, repository.save was not called and both files are as
\* they were before the call.
C10_ValidationBeforeIO ==
    [][last'.result = "TaskValidationError"
       => (~last'.saved /\ UNCHANGED <<todo_file, done_file>>)]_vars

C10_Witness ==
    /\ last.op = "update_task" /\ last.result = "TaskValidationError"
    /\ held_task.description = <<W("eggs")>>
    /\ Len(todo_file) + Len(done_file) = 1

\* the fields of a record that update_task can assign
Editable(task) ==
    <<task.description, task.priority, get_due_date(task), task.projects, task.contexts>>

\* C11 -- Validation failure is never partially applied: when update_task
\* raises TaskValidationError, the record passed in has the description,
\* priority, due date, projects and contexts it had before the call.
C11_ValidationNotPartial ==
    [][(last'.op = "update_task" /\ last'.result = "TaskValidationError")
       => Editable(held_task') = Editable(held_task)]_vars

\* C12 -- Failures are wrapped, never swallowed: a call during which a read
\* or a write failed does not return normally, it reaches the caller of the
\* service as TaskOperationError; no other kind of exception escapes.
C12_FailuresWrapped ==
    /\ last.fault # "none" => last.result = "TaskOperationError"
    /\ last.result \in {"ok", "TaskValidationError", "TaskOperationError"}

C12_Witness ==
    /\ last.op = "complete_task" /\ last.fault = "append"
    /\ last.result = "TaskOperationError"
    /\ Len(todo_file) + Len(done_file) = 0

\* stored lines, of both files, that carry the token cmid:<task_id>
Carrying(todo, done, task_id) == LinesCarrying(todo, task_id) + LinesCarrying(done, task_id)

\* C13 -- Partial failure and retry: a save(task) that removes the task's old
\* line and then fails at the append raises with no line carrying the task's
\* id in either file; a save of the same record that succeeds next leaves
\* exactly one line carrying that id, in the file matching task.is_completed.
C13_PartialFailureRetry ==
    [][/\ (/\ last'.fault = "append"
           /\ Carrying(todo_file', done_file', id(held_task'))
                < Carrying(todo_file, done_file, id(held_task')))
          => (/\ last'.result = "TaskOperationError"
              /\ Carrying(todo_file', done_file', id(held_task')) = 0)
       /\ (/\ last.fault = "append"
           /\ Carrying(todo_file, done_file, id(held_task)) = 0
           /\ last'.op \in {"update_task", "complete_task", "reopen_task"}
           /\ last'.result = "ok")
          => (/\ id(held_task') = id(held_task)
              /\ Carrying(todo_file', done_file', id(held_task')) = 1
              /\ LinesCarrying(IF held_task'.is_completed THEN done_file' ELSE todo_file',
                               id(held_task')) = 1)]_vars

\* the predicate of the claim: no filter at all, or a shared context, or a
\* shared project
Shown(tl, task) ==
    \/ (tl.filter_contexts = {} /\ tl.filter_projects = {})
    \/ \E c \in tl.filter_contexts : \E i \in 1..Len(task.contexts) : task.contexts[i] = c
    \/ \E p \in tl.filter_projects : \E i \in 1..Len(task.projects) : task.projects[i] = p

\* C14 -- Filter predicate: the rows of the mounted list are exactly the tasks
\* that match (both filter sets empty, or a context in the selected contexts,
\* or a project in the selected projects), in the order of the task list; with
\* an empty filter the rows are all the tasks in their order.
C14_FilterPredicate ==
    task_list.initialized =>
        /\ task_list.rows = SelectSeq(task_list.tasks, LAMBDA t : Shown(task_list, t))
        /\ (task_list.filter_contexts = {} /\ task_list.filter_projects = {})
              => task_list.rows = task_list.tasks

C14_Witness ==
    /\ task_list.op = "apply_filter"
    /\ task_list.filter_contexts = {"work"} /\ task_list.filter_projects = {"shop"}
    /\ Len(task_list.tasks) = 3
    /\ Len(task_list.rows) = 2
    /\ task_list.rows[1].projects = <<"shop">> /\ task_list.rows[1].contexts = << >>
    /\ task_list.rows[2].contexts = <<"work">> /\ task_list.rows[2].projects = << >>

\* the value a task has for a sort attribute, None when it has none
SortValue(attribute, t) ==
    CASE attribute = "priority" -> t.priority
      [] attribute = "context" -> IF Len(t.contexts) > 0 THEN t.contexts[1] ELSE None
      [] attribute = "project" -> IF Len(t.projects) > 0 THEN t.projects[1] ELSE None
      [] attribute = "due" -> get_due_date(t)
      [] attribute = "created" -> t.creation_date

\* C15 -- Sort order: after apply_sort(attribute) every task that has a value
\* for the attribute precedes every task that lacks one, and the tasks that
\* have a value are in ascending order of it.
C15_SortOrder ==
    task_list.op = "apply_sort" =>
        \A i, j \in 1..Len(task_list.tasks) :
            i < j =>
                /\ SortValue(task_list.attribute, task_list.tasks[i]) = None
                      => SortValue(task_list.attribute, task_list.tasks[j]) = None
                /\ (/\ SortValue(task_list.attribute, task_list.tasks[i]) # None
                    /\ SortValue(task_list.attribute, task_list.tasks[j]) # None)
                      => StrRank(SortValue(task_list.attribute, task_list.tasks[i]))
                           <= StrRank(SortValue(task_list.attribute, task_list.tasks[j]))

C15_Witness ==
    /\ task_list.op = "apply_sort" /\ task_list.attribute = "due"
    /\ Len(task_list.tasks) = 3
    /\ get_due_date(task_list.tasks[1]) = EarlyDay
    /\ get_due_date(task_list.tasks[2]) = DueDay
    /\ get_due_date(task_list.tasks[3]) = None
    /\ AttrHas(task_list.tasks[3].attributes, "due")

\* the place of a task in a list of different tasks
PlaceOf(tasks, t) == CHOOSE i \in 1..Len(tasks) : tasks[i] = t

\* C16 -- Sort is a stable permutation: apply_sort leaves exactly the same
\* tasks in the list, two tasks with equal sort keys keep their order, and
\* sorting again by the same attribute changes nothing.
C16_StablePermutation ==
    [][task_list'.op = "apply_sort"
       => /\ Len(task_list'.tasks) = Len(task_list.tasks)
          /\ ToSet(task_list'.tasks) = ToSet(task_list.tasks)
          /\ \A i, j \in 1..Len(task_list.tasks) :
                (/\ i < j
                 /\ SortKey(task_list'.attribute, task_list.tasks[i])
                      = SortKey(task_list'.attribute, task_list.tasks[j]))
                => PlaceOf(task_list'.tasks, task_list.tasks[i])
                     < PlaceOf(task_list'.tasks, task_list.tasks[j])
          /\ (task_list.op = "apply_sort" /\ task_list.attribute = task_list'.attribute)
                => task_list'.tasks = task_list.tasks]_vars

C16_Witness ==
    /\ task_list.op = "apply_sort" /\ task_list.attribute = "priority"
    /\ Len(task_list.tasks) = 3
    /\ task_list.tasks[1].priority = "A" /\ task_list.tasks[1].description = <<W("tea"), PrjTok("shop")>>
    /\ task_list.tasks[2].priority = "A" /\ task_list.tasks[2].contexts = <<"home">>
    /\ task_list.tasks[3].priority = None

\* C17 -- Completion-date invariant: a record that was created uncompleted
\* has, after any sequence of complete() and reopen() calls, a completion
\* date exactly when it is completed; complete() leaves the record completed
\* with today's completion date, whether it was completed before or not.
C17_CompletionDate ==
    /\ holding => (held_task.completion_date # None <=> held_task.is_completed)
    /\ (last.op = "complete_task" /\ last.result = "ok")
          => (held_task.is_completed /\ held_task.completion_date = Today)

C17_Witness ==
    /\ last.op = "complete_task" /\ last.result = "ok"
    /\ held_task.is_completed /\ held_task.completion_date = Today
    /\ held_task.meta
    /\ Len(done_file) = 1 /\ Len(todo_file) = 0
    /\ held_task.original_text = done_file[1]

\* C18 -- Derived tags stay consistent: after every create_task or
\* update_task call, returned or raised, the projects and contexts of the
\* record are the +token and @token occurrences of its description, in order.
C18_TagsConsistent ==
    (holding /\ last.op \in {"create_task", "update_task"}) =>
        /\ held_task.projects = Projects(held_task.description)
        /\ held_task.contexts = Contexts(held_task.description)

\* the record that the line save appended decodes to
LoadedBack(task) ==
    IF task.is_completed THEN to_domain(PyParse(done_file[Len(done_file)]))
    ELSE to_domain(PyParse(todo_file[Len(todo_file)]))

\* C19 -- Due date round trip: setting due_date to a date stores its
\* YYYY-MM-DD text under attributes["due"] and due_date reads that date, also
\* from the record that the saved line decodes to; setting due_date to none
\* removes the key and due_date reads none; an unparsable value reads none.
C19_DueRoundTrip ==
    /\ holding =>
          /\ get_due_date(set_due_date(held_task, DueDay)) = DueDay
          /\ \E i \in 1..Len(set_due_date(held_task, DueDay).attributes) :
                set_due_date(held_task, DueDay).attributes[i]
                    = [key |-> "due", vals |-> <<DueDay>>, list |-> FALSE]
          /\ ~AttrHas(set_due_date(held_task, None).attributes, "due")
          /\ get_due_date(set_due_date(held_task, None)) = None
          /\ get_due_date([held_task EXCEPT !.attributes = AttrSet(@, "due", "soon")]) = None
    /\ (SaveReturned /\ get_due_date(held_task) # None)
          => get_due_date(LoadedBack(held_task)) = get_due_date(held_task)

\* decode(encode(t)): the record that the stored line of t decodes to
RoundTrip(t) == to_domain(PyParse(PyStr(to_pytodo(t))))

\* the keys of an attribute mapping with their values, a scalar read as a
\* list of one
AttrValues(attrs) == [i \in 1..Len(attrs) |-> <<attrs[i].key, attrs[i].vals>>]

\* C20 -- Codec round trip: converting a record to its stored line and
\* decoding the line gives back the record's priority, creation date,
\* completion date, completed flag, attributes and description, whatever the
\* first token of the description looks like.
C20_CodecRoundTrip ==
    holding =>
        /\ RoundTrip(held_task).priority = held_task.priority
        /\ RoundTrip(held_task).creation_date = held_task.creation_date
        /\ RoundTrip(held_task).completion_date = held_task.completion_date
        /\ RoundTrip(held_task).is_completed = held_task.is_completed
        /\ AttrValues(RoundTrip(held_task).attributes) = AttrValues(held_task.attributes)
        /\ RoundTrip(held_task).description = held_task.description

\* C21 -- Distinct paths are required: a construction with two names that
\* resolve to the same file raises ValueError and creates no file and no
\* directory.
C21_DistinctPaths ==
    [][resolve(fs'.call[1]) = resolve(fs'.call[2])
       => (fs'.repo = "ValueError" /\ fs'.files = fs.files /\ fs'.dirs = fs.dirs)]_vars

C21_Witness ==
    /\ fs.call = <<"h/link", "h/todo.txt">>
    /\ fs.repo = "ValueError"
    /\ fs.files["h/todo.txt"] = "absent"

\* C22 -- Construction ensures the files exist without touching existing
\* content: after a construction that returned both files exist; a file that
\* existed keeps its content; when one of the two files is missing and cannot
\* be created, the construction raises ValueError.
C22_EnsureExists ==
    [][/\ fs'.repo = "ok"
          => (/\ fs'.files[resolve(fs'.call[1])] # "absent"
              /\ fs'.files[resolve(fs'.call[2])] # "absent")
       /\ \A p \in FilePaths : fs.files[p] # "absent" => fs'.files[p] = fs.files[p]
       /\ (\E n \in {fs'.call[1], fs'.call[2]} :
              fs.files[resolve(n)] = "absent" /\ ReadOnly(Parent(resolve(n))))
          => fs'.repo = "ValueError"]_vars

C22_Witness ==
    /\ fs.call = <<"h/todo.txt", "new/done.txt">>
    /\ fs.repo = "ok"
    /\ fs.files["h/todo.txt"] = "tasks"
    /\ fs.files["new/done.txt"] = ""
    /\ "new" \in fs.dirs

\* the tags written on the lines of a file
TagsWritten(file, kind) ==
    {file[i][j][3] : <<i, j>> \in {q \in (1..Len(file)) \X (1..MaxTokens + 1) :
                                      q[2] <= Len(file[q[1]]) /\ file[q[1]][q[2]][1] = kind}}

Ascending(s) == \A i, j \in 1..Len(s) : i < j => StrRank(s[i]) < StrRank(s[j])

\* C23 -- Unique tag lists follow the active file: whatever create, update,
\* complete, reopen and delete calls were made, get_unique_contexts() and
\* get_unique_projects() are strictly ascending (sorted, no duplicates) and
\* hold exactly the contexts and projects written on the lines of the active
\* file; a tag that occurs only in the completed file, or on a deleted task,
\* is not in them.
C23_UniqueTags ==
    /\ Ascending(get_unique_contexts)
    /\ Ascending(get_unique_projects)
    /\ ToSet(get_unique_contexts) = TagsWritten(todo_file, "ctx")
    /\ ToSet(get_unique_projects) = TagsWritten(todo_file, "prj")

\* a task with two contexts was completed; one of them is only in the
\* completed file now, the other is still written on the active line left
C23_Witness ==
    /\ last.op = "complete_task" /\ last.result = "ok"
    /\ Len(todo_file) = 1
    /\ get_unique_contexts = <<"home">>
    /\ "work" \in TagsWritten(done_file, "ctx")

\* C24 -- Config write/read round trip: whatever the config file held, after
\* save_config_value(key, value) the loaded config gives value for key, and
\* gives every other key the value it had before the call.
C24_ConfigRoundTrip ==
    [][config' # config =>
          /\ load_config(config'.lines)[config'.call[1]] = config'.call[2]
          /\ \A k \in ConfigKeys \ {config'.call[1]} :
                load_config(config'.lines)[k] = load_config(config.lines)[k]]_vars

\* C25 -- Filtered marker tracks filter state: after any apply_filter and
\* clear_filter calls, is_filtered is true exactly when one of the two filter
\* sets is not empty, and the widget has the CSS class "filtered" exactly
\* when is_filtered is true.
C25_FilteredMarker ==
    /\ is_filtered(task_list) <=>
          (Cardinality(task_list.filter_contexts) + Cardinality(task_list.filter_projects) > 0)
    /\ ("filtered" \in task_list.classes) <=> is_filtered(task_list)

\* a filter by project alone was applied to the mounted widget
C25_Witness ==
    /\ task_list.op = "apply_filter" /\ task_list.initialized
    /\ task_list.filter_contexts = {} /\ task_list.filter_projects = {"shop"}
    /\ "filtered" \in task_list.classes

\* the lines of a file as a set
LinesOf(file) == {file[i] : i \in 1..Len(file)}

\* C26 -- Lost update under concurrent writers: a party's write stores the
\* lines it read earlier with its own change, whatever the other party wrote
\* in between, and returns without an error (last writer wins); so a state is
\* reachable in which a line one party wrote is missing after the other
\* party's write, with no error reported to either (C26_Witness).
C26_LastWriterWins ==
    [][\A w \in Parties :
          (writers.party[w].pc = "parsed" /\ writers'.party[w].pc = "idle") =>
              /\ writers'.party[w].result = "ok"
              /\ writers.party[w].op[1] = "append" =>
                    todo_file' = TodoTxtSave(writers.party[w].buffer)
                                    \o <<writers.party[w].op[2]>>
              /\ writers.party[w].op[1] = "remove" =>
                    IF writers.party[w].op[2] \in LinesOf(TodoTxtSave(writers.party[w].buffer))
                    THEN /\ writers.party[w].op[2] \notin LinesOf(todo_file')
                         /\ LinesOf(todo_file') \subseteq
                                LinesOf(TodoTxtSave(writers.party[w].buffer))
                    ELSE todo_file' = todo_file]_vars

\* both parties appended their line and both calls returned normally, nobody
\* removed anything, and one of the two lines is not in the file
C26_Witness ==
    /\ \A w \in Parties : writers.party[w].pc = "idle" /\ writers.party[w].result = "ok"
    /\ writers.written = {PartyLine("a"), PartyLine("b")}
    /\ writers.removed = {}
    /\ \E w \in Parties : PartyLine(w) \notin LinesOf(todo_file)

\* C27 -- The UI never crashes on a repository failure: whatever handler of
\* the screen and of the two lists ran (mount and refresh of the lists, add,
\* edit, delete, complete, reopen, open filter, toggle completed list), no
\* TaskOperationError of a service call has left it.
C27_HandlersCatch == ui.escaped = "none"

\* C28 -- save removes the stale copy from both files: whatever the two files
\* held, the task's id in both of them included, right after a save(task)
\* that returned no line with task.id is left in the file that does not
\* correspond to task.completed, and exactly one is in the file that does.
C28_StaleCopyRemoved ==
    SaveReturned =>
        IF held_task.is_completed
        THEN /\ LinesCarrying(todo_file, id(held_task)) = 0
             /\ LinesCarrying(done_file, id(held_task)) = 1
        ELSE /\ LinesCarrying(done_file, id(held_task)) = 0
             /\ LinesCarrying(todo_file, id(held_task)) = 1

\* C29 -- delete removes by id from both files: whatever the two files held,
\* right after a delete(task) that returned, for a task with an id, no line
\* with that id is left in the active file or in the completed file.
C29_DeleteFromBoth ==
    (last.op = "delete_task" /\ last.result = "ok" /\ holding
        /\ AttrHas(held_task.attributes, "cmid")) =>
        /\ LinesCarrying(todo_file, id(held_task)) = 0
        /\ LinesCarrying(done_file, id(held_task)) = 0

\* a record that came from a stored line without cmid
Legacy(task) ==
    task.meta /\ task.original_text # NoText /\ ~AttrHas(task.attributes, "cmid")

\* the step is a save of the caller's record that returned
SaveStep == last'.op \in SaveCalls /\ last'.result = "ok" /\ last'.saved

\* C30 -- Legacy lines are replaced, not duplicated: a save of a record that
\* was loaded from a line without cmid gives the record an id, and afterwards
\* the record's last-known text is in neither file, exactly one line carries
\* the new id, and every other line is still stored; when a line with the
\* record's id was found, the text fallback is not used: only lines with that
\* id are removed.
C30_LegacyReplaced ==
    [][(holding /\ SaveStep /\ last'.op # "create_task") =>
          /\ Legacy(held_task) =>
                /\ id(held_task') = Uuid(uuid_count + 1)
                /\ held_task.original_text \notin LinesOf(todo_file') \cup LinesOf(done_file')
                /\ Carrying(todo_file', done_file', id(held_task')) = 1
                /\ \A l \in LinesOf(todo_file) \cup LinesOf(done_file) :
                      l # held_task.original_text =>
                          l \in LinesOf(todo_file') \cup LinesOf(done_file')
          /\ (~Legacy(held_task) /\ Carrying(todo_file, done_file, id(held_task)) > 0) =>
                \A l \in LinesOf(todo_file) \cup LinesOf(done_file) :
                    KV("cmid", id(held_task)) \notin ToSet(l) =>
                        l \in LinesOf(todo_file') \cup LinesOf(done_file')]_vars

\* the line without an id was loaded and completed: it is gone from the
\* active file, and the completed file holds it with the first generated id
C30_Witness ==
    /\ last.op = "complete_task" /\ last.result = "ok"
    /\ id(held_task) = Uuid(1)
    /\ held_task.contexts = <<"work", "home">>
    /\ \A i \in 1..Len(todo_file) : CtxTok("work") \notin ToSet(todo_file[i])
    /\ LinesCarrying(done_file, Uuid(1)) = 1

\* the ids carried by the lines of a file
IdsStored(file) ==
    {file[i][j][3] : <<i, j>> \in {q \in (1..Len(file)) \X (1..MaxTokens + 1) :
                                      q[2] <= Len(file[q[1]]) /\ file[q[1]][q[2]][1] = "kv"
                                      /\ file[q[1]][q[2]][2] = "cmid"}}

\* C31 -- Generated ids are unique: the id that save assigns to a task
\* without one is carried by no line stored in either file at that time, so
\* a create_task that returned has left every stored line where it was and
\* has only appended the new line to the active file.
C31_GeneratedIdsUnique ==
    [][(last'.op = "create_task" /\ last'.result = "ok") =>
          /\ id(held_task') \notin IdsStored(todo_file) \cup IdsStored(done_file)
          /\ Len(todo_file') = Len(todo_file) + 1
          /\ SubSeq(todo_file', 1, Len(todo_file)) = todo_file
          /\ done_file' = done_file]_vars

\* C32 -- Saved priorities are valid: a task that create_task or update_task
\* hands to repository.save has no priority or exactly one letter of A..Z;
\* a call with any other priority (two letters, a digit, a letter that is
\* not ASCII) raises TaskValidationError and saves nothing.
C32_SavedPriorityValid ==
    [][(last'.op \in {"create_task", "update_task"} /\ last'.saved) =>
          held_task'.priority \in {None} \cup AsciiUpper]_vars

\* C36 -- The cursor acts on the highlighted task: whatever the tasks, the
\* filter and the cursor position, the task that get_task_at_cursor returns
\* (the one the key actions delete, complete or edit) is the task shown in
\* the row that has the class "focused".
C36_CursorOnHighlight ==
    (task_list.initialized /\ get_task_at_cursor(task_list) # NoTask) =>
        focused_row(task_list) = get_task_at_cursor(task_list)

\* C37 -- The cursor stays in range: after any moves, deletes, sorts, filters
\* and refreshes, when the list holds tasks the index is at least 0 and
\* less than their number, so get_task_at_cursor returns a task.
C37_CursorInRange ==
    (task_list.initialized /\ Len(task_list.tasks) > 0) =>
        /\ 0 <= task_list.focused_task_index
        /\ task_list.focused_task_index < Len(task_list.tasks)
        /\ get_task_at_cursor(task_list) # NoTask

\* C33 -- Deletion through the key d needs confirmation: pressing d changes
\* neither file nor the list; delete_task is called for it only in the callback
\* of a confirmation screen dismissed with True, and the task it is given
\* is the one whose description the message named; a dismissal with False
\* leaves both files and the task list as they were.
C33_DeleteNeedsConfirmation ==
    [][/\ ui'.handler = "delete_todo" =>
             /\ ui'.deleted = NoTask
             /\ UNCHANGED <<todo_file, done_file, task_list>>
       /\ (ui'.handler = "on_confirm" /\ ui'.deleted # NoTask) =>
             /\ ui.confirming
             /\ ui'.result
             /\ ui'.deleted.description = ui.message
       /\ (ui'.handler = "on_confirm" /\ ~ui'.result) =>
             UNCHANGED <<todo_file, done_file, task_list>>]_vars

\* C33 happens: with the cursor on the second of two tasks, a confirmation
\* dismissed with True deleted the task its message named, and only that one
C33_Witness ==
    /\ ui.handler = "on_confirm" /\ ui.result /\ ~ui.notified
    /\ ui.deleted # NoTask /\ ui.deleted.description = ui.message
    /\ task_list.focused_task_index = 1
    /\ Len(todo_file) = 1 /\ Len(task_list.tasks) = 1
    /\ task_list.tasks[1].description # ui.message

\* the lines of a file that do not belong to the task: they neither carry
\* its id nor are its last-known text
OtherLines(file, task_id, text) ==
    LET Other(l) == KV("cmid", task_id) \notin ToSet(l) /\ l # text
    IN  SelectSeq(file, Other)

\* C34 -- Other tasks are untouched: a save or a delete of a record that
\* returned has left every line that is not the task's in its file and in
\* its order, and the number of stored lines has changed by at most one, also
\* when another line has the very text the task was loaded from.
C34_OthersUntouched ==
    [][(holding /\ last'.result = "ok"
          /\ (SaveStep \/ last'.op = "delete_task") /\ last'.op # "create_task") =>
          /\ OtherLines(todo_file', id(held_task'), held_task.original_text)
                = OtherLines(todo_file, id(held_task'), held_task.original_text)
          /\ OtherLines(done_file', id(held_task'), held_task.original_text)
                = OtherLines(done_file, id(held_task'), held_task.original_text)
          /\ Len(todo_file') + Len(done_file') - Len(todo_file) - Len(done_file)
                \in {-1, 0, 1}]_vars

\* C35 -- No duplication even on failure: in every state reached from two
\* empty files by saves and deletes, any of which may fail at any of its
\* file reads or writes, no id is carried by more than one stored line,
\* counting both files.
C35_NoDuplicateOnFailure ==
    \A task_id \in IdsStored(todo_file) \cup IdsStored(done_file) :
        Carrying(todo_file, done_file, task_id) <= 1

\* C38 -- A failed service mutation leaves the record unchanged: when
\* complete_task, reopen_task or update_task raises TaskOperationError
\* because the repository's save failed, the caller's record has the completed
\* flag, completion date, description, priority and attributes it had before
\* the call.
C38_FailedMutationKeepsRecord ==
    [][(/\ last'.op \in {"complete_task", "reopen_task", "update_task"}
        /\ last'.result = "TaskOperationError" /\ last'.saved) =>
          /\ held_task'.is_completed = held_task.is_completed
          /\ held_task'.completion_date = held_task.completion_date
          /\ held_task'.description = held_task.description
          /\ held_task'.priority = held_task.priority
          /\ held_task'.attributes = held_task.attributes]_vars
====
